---------------------------- MODULE Spec2Model ----------------------------
(***************************************************************************)
(* A model of the cost-constrained MCTS node statistic of mamcts:          *)
(*   src/mcts/statistics/uct_statistic.h              (UctStatistic)       *)
(*   src/mcts/cost_constrained/cost_constrained_statistic.h                *)
(*                                        (CostConstrainedStatistic and    *)
(*                                         the lambda adapter)             *)
(*   src/mcts/random_generator.h          (the process-wide generator)     *)
(*                                                                         *)
(* Rewards, costs, action values and probabilities are C++ doubles.  The   *)
(* model holds them as rationals <<num, den>> in lowest terms (den > 0).   *)
(* An arithmetic operation on doubles is the exact operation followed by   *)
(* rounding to the nearest value with `significand` bits (ties to even,    *)
(* unbounded exponent); significand = 0 stands for arithmetic without      *)
(* rounding error, which is what the searches of Spec and SpecPlan run     *)
(* in.  sqrt(log(N)/n) is tabulated to four decimals (SqrtLogTable).       *)
(*                                                                         *)
(* std::mt19937 is modelled as a generator whose state is the position in  *)
(* its output stream: every draw advances the position by one and the      *)
(* value drawn is a function of the position.                              *)
(***************************************************************************)
EXTENDS Integers, Sequences, FiniteSets, TLC

(***************************************************************************)
(* Bounds of the model.                                                    *)
(***************************************************************************)
\* number of MCTS iterations (select, backpropagate, adapt) that are explored
MaxIterations == 4
\* number of positions of the generator's output stream that are told apart
RngPeriod == 6

\* significand bits of the floating-point format of SpecLP
SignificandBits == 8

(***************************************************************************)
(* Rational numbers.                                                       *)
(***************************************************************************)
Abs(x) == IF x < 0 THEN -x ELSE x

RECURSIVE GCD(_, _)
GCD(a, b) == IF b = 0 THEN a ELSE GCD(b, a % b)

\* n/d divided through by g, with a positive denominator (d # 0)
Reduce(n, d, g) ==
  IF d < 0 THEN <<(-n) \div g, (-d) \div g>> ELSE <<n \div g, d \div g>>

\* n/d in lowest terms with a positive denominator (d # 0)
Rat(n, d) == Reduce(n, d, GCD(Abs(n), Abs(d)))

FromInt(i) == <<i, 1>>
RZero == <<0, 1>>
ROne == <<1, 1>>

\* The operations divide common factors out before they multiply, so that
\* intermediate products stay small.
\* x + y, g the greatest common divisor of the denominators
AddOver(x, y, g) ==
  Rat(x[1] * (y[2] \div g) + y[1] * (x[2] \div g), (x[2] \div g) * y[2])

\* x * y, g1 = gcd(|x[1]|, y[2]) and g2 = gcd(|y[1]|, x[2])
MulOver(x, y, g1, g2) ==
  <<(x[1] \div g1) * (y[1] \div g2), (x[2] \div g2) * (y[2] \div g1)>>

\* x <= y and x < y, g the greatest common divisor of the denominators
LeOver(x, y, g) == x[1] * (y[2] \div g) <= y[1] * (x[2] \div g)
LtOver(x, y, g) == x[1] * (y[2] \div g) < y[1] * (x[2] \div g)

RNeg(x) == <<-x[1], x[2]>>
\* 1 / x for x # 0
RInv(x) == IF x[1] < 0 THEN <<-x[2], -x[1]>> ELSE <<x[2], x[1]>>
\* the exact sum, difference and product
QAdd(x, y) == AddOver(x, y, GCD(x[2], y[2]))
QSub(x, y) == QAdd(x, RNeg(y))
QMul(x, y) == MulOver(x, y, GCD(Abs(x[1]), y[2]), GCD(Abs(y[1]), x[2]))
\* comparisons of doubles are exact
RLe(x, y) == LeOver(x, y, GCD(x[2], y[2]))
RLt(x, y) == LtOver(x, y, GCD(x[2], y[2]))
RAbs(x) == <<Abs(x[1]), x[2]>>
RMin(x, y) == IF RLt(y, x) THEN y ELSE x
RMax(x, y) == IF RLt(x, y) THEN y ELSE x

(***************************************************************************)
(* double: a floating-point number with `significand` bits.                *)
(***************************************************************************)
VARIABLE significand   \* bits of the significand; 0: no rounding error

\* <<a', d', e>> with a/d = (a'/d') * 2^e and 2^(bits-1) <= a'/d' < 2^bits,
\* for a, d > 0, starting from e = 0
RECURSIVE FlExp(_, _, _, _)
FlExp(a, d, bits, e) ==
  IF a >= d * 2^bits THEN FlExp(a, 2 * d, bits, e + 1)
  ELSE IF a < d * 2^(bits - 1) THEN FlExp(2 * a, d, bits, e - 1)
  ELSE <<a, d, e>>

\* a/d rounded to the nearest integer, ties to even
FlMantissa(a, d) ==
  (a \div d) + (IF 2 * (a % d) > d \/ (2 * (a % d) = d /\ (a \div d) % 2 = 1)
                THEN 1 ELSE 0)

\* m * 2^e
FlValue(m, e) == IF e >= 0 THEN <<m * 2^e, 1>> ELSE Rat(m, 2^(-e))

FlOf(t) == FlValue(FlMantissa(t[1], t[2]), t[3])

\* x rounded to the nearest number with a significand of bits bits
Fl(x, bits) ==
  IF x[1] = 0 THEN x
  ELSE IF x[1] < 0 THEN RNeg(FlOf(FlExp(-x[1], x[2], bits, 0)))
  ELSE FlOf(FlExp(x[1], x[2], bits, 0))

\* the double nearest to x
Round(x) == IF significand = 0 THEN x ELSE Fl(x, significand)

\* the operators +, -, * and / of double
RAdd(x, y) == Round(QAdd(x, y))
RSub(x, y) == Round(QSub(x, y))
RMul(x, y) == Round(QMul(x, y))
\* x / y for y # 0
RDiv(x, y) == Round(QMul(x, RInv(y)))

\* std::numeric_limits<double>::max(), as a value above every other one
DblMax == <<1000000, 1>>

\* 10000 * sqrt(log(N) / n), rounded, for N, n in 1..12 (row N, column n)
SqrtLogTable ==
  << <<0, 0, 0, 0, 0, 0, 0, 0, 0, 0, 0, 0>>,
     <<8326, 5887, 4807, 4163, 3723, 3399, 3147, 2944, 2775, 2633, 2510, 2403>>,
     <<10481, 7412, 6051, 5241, 4687, 4279, 3962, 3706, 3494, 3315, 3160, 3026>>,
     <<11774, 8326, 6798, 5887, 5266, 4807, 4450, 4163, 3925, 3723, 3550, 3399>>,
     <<12686, 8971, 7324, 6343, 5674, 5179, 4795, 4485, 4229, 4012, 3825, 3662>>,
     <<13386, 9465, 7728, 6693, 5986, 5465, 5059, 4733, 4462, 4233, 4036, 3864>>,
     <<13950, 9864, 8054, 6975, 6238, 5695, 5272, 4932, 4650, 4411, 4206, 4027>>,
     <<14420, 10197, 8326, 7210, 6449, 5887, 5450, 5098, 4807, 4560, 4348, 4163>>,
     <<14823, 10481, 8558, 7412, 6629, 6051, 5603, 5241, 4941, 4687, 4469, 4279>>,
     <<15174, 10730, 8761, 7587, 6786, 6195, 5735, 5365, 5058, 4799, 4575, 4380>>,
     <<15485, 10950, 8940, 7743, 6925, 6322, 5853, 5475, 5162, 4897, 4669, 4470>>,
     <<15764, 11147, 9101, 7882, 7050, 6435, 5958, 5573, 5255, 4985, 4753, 4551>> >>

\* sqrt(log(N) / n) for N >= 1 and n >= 1
SqrtLogOver(N, n) == Rat(SqrtLogTable[N][n], 10000)

(***************************************************************************)
(* Types of mcts.h as the statistics use them.                             *)
(***************************************************************************)
\* ego actions of the test problems
num_actions == 3
ActionIdx == 0 .. (num_actions - 1)

\* std::iota(begin, end, 0) on a vector of n elements
Iota(n) == [i \in 1 .. n |-> i - 1]

\* vector::erase(begin() + array_idx), array_idx counted from 0
Erase(vec, array_idx) ==
  [i \in 1 .. (Len(vec) - 1) |-> IF i <= array_idx THEN vec[i] ELSE vec[i + 1]]

\* the set of elements of a vector
Elems(vec) == {vec[i] : i \in 1 .. Len(vec)}

\* std::map / unordered_map operator[]= : insert or overwrite one key
MapPut(m, k, v) == [x \in (DOMAIN m) \cup {k} |-> IF x = k THEN v ELSE m[x]]

(***************************************************************************)
(* UctStatistic                                                            *)
(***************************************************************************)
\* UcbPair() : action_count_(0), action_value_(0.0f)
UcbPair == [action_count_ |-> 0, action_value_ |-> RZero]

\* UctStatistic::UctStatistic with the bounds and the discount of its
\* MctsParameters
UctStatistic(n, lower, upper, discount) ==
  [ value_ |-> RZero,
    latest_return_ |-> RZero,
    ucb_statistics_ |-> <<>>,
    total_node_visits_ |-> 0,
    unexpanded_actions_ |-> Iota(n),
    upper_bound |-> upper,
    lower_bound |-> lower,
    k_discount_factor |-> discount ]

\* update_from_heuristic_from_backpropagated that also counts a visit of
\* every expanded action
HeuristicCountsActions(stat, backpropagated) ==
  [stat EXCEPT !.value_ = backpropagated,
               !.latest_return_ = backpropagated,
               !.ucb_statistics_ =
                  [a \in DOMAIN @ |->
                     [@[a] EXCEPT !.action_count_ = @ + 1]],
               !.total_node_visits_ = @ + 1]

\* UctStatistic::update_from_heuristic_from_backpropagated
update_from_heuristic_from_backpropagated(stat, backpropagated) ==
  [stat EXCEPT !.value_ = backpropagated,
               !.latest_return_ = backpropagated,
               !.total_node_visits_ = @ + 1]

\* the running total in place of the running mean
RunningTotal(mean, x, n) == RAdd(mean, x)

\* the running mean: mean + (x - mean) / n
RunningMean(mean, x, n) == RAdd(mean, RDiv(RSub(x, mean), FromInt(n)))

\* ucb_statistics_[a]: the UcbPair of a, a fresh one if a has none
UcbPairOf(stat, a) ==
  IF a \in DOMAIN stat.ucb_statistics_ THEN stat.ucb_statistics_[a] ELSE UcbPair

\* Backpropagate without total_node_visits_ += 1
BackpropagateNoVisit(stat, a, ucb_pair, latest) ==
  [stat EXCEPT
     !.latest_return_ = latest,
     !.ucb_statistics_ =
        MapPut(@, a,
               [ action_count_ |-> ucb_pair.action_count_ + 1,
                 action_value_ |-> RunningMean(ucb_pair.action_value_, latest,
                                               ucb_pair.action_count_ + 1) ]),
     !.value_ = RunningMean(@, latest, stat.total_node_visits_ + 1)]

\* the assignments of update_statistics_from_backpropagated, given the
\* UcbPair of the action and latest_return_
Backpropagate(stat, a, ucb_pair, latest) ==
  [stat EXCEPT
     !.latest_return_ = latest,
     !.ucb_statistics_ =
        MapPut(@, a,
               [ action_count_ |-> ucb_pair.action_count_ + 1,
                 action_value_ |-> RunningMean(ucb_pair.action_value_, latest,
                                               ucb_pair.action_count_ + 1) ]),
     !.total_node_visits_ = @ + 1,
     !.value_ = RunningMean(@, latest, stat.total_node_visits_ + 1)]

\* UctStatistic::update_statistics_from_backpropagated; collected is the
\* pair collected_reward_ = <<action, immediate value>> of the statistic
update_statistics_from_backpropagated(stat, collected, backpropagated) ==
  Backpropagate(stat, collected[1], UcbPairOf(stat, collected[1]),
                RAdd(collected[2], RMul(stat.k_discount_factor, backpropagated)))

\* UctStatistic::get_normalized_ucb_value for an action that has a UcbPair
\* (ucb_statistics_.at(action) throws std::out_of_range for any other)
get_normalized_ucb_value(stat, action) ==
  RDiv(RSub(stat.ucb_statistics_[action].action_value_, stat.lower_bound),
       RSub(stat.upper_bound, stat.lower_bound))

(***************************************************************************)
(* RandomGenerator: the static std::mt19937 shared by every statistic.     *)
(***************************************************************************)
\* the generator after one draw
RngAdvance(gen) == (gen + 1) % RngPeriod

\* the generator after a call that took draws (0 or 1) draws
RngAfter(gen, draws) == IF draws = 1 THEN RngAdvance(gen) ELSE gen

\* std::uniform_int_distribution<ActionIdx>(0, hi)(random_generator_)
UniformInt(gen, hi) == gen % (hi + 1)

\* std::uniform_real_distribution<double>(0, 1)(random_generator_), in [0, 1)
UniformReal(gen) == Rat(gen, RngPeriod)

(***************************************************************************)
(* CostConstrainedStatistic: the const member functions, as operators on   *)
(* the two UctStatistic members.  Every result is a record whose status is *)
(* "ok" when the call returns, "out_of_range" when it ends with the        *)
(* std::out_of_range of map::at / vector::at, and "undefined" when it      *)
(* reads outside a vector (undefined behaviour).                           *)
(***************************************************************************)
\* the exploration term of calculate_ucb_values.  log(0) = -inf and 0/0 make
\* the square root NaN, which the code replaces by DBL_MAX; log(N)/0 for
\* N > 1 makes it +inf, and kappa_local * inf is NaN again or +inf
ExplorationTerm(kappa_local, N, n) ==
  IF N = 0 \/ n = 0 THEN DblMax ELSE RMul(kappa_local, SqrtLogOver(N, n))

\* values[idx] of calculate_ucb_values
UcbValue(reward, cost, lambda, kappa_local, idx) ==
  RAdd(RSub(get_normalized_ucb_value(reward, idx),
            RMul(lambda, get_normalized_ucb_value(cost, idx))),
       ExplorationTerm(kappa_local, reward.total_node_visits_,
                       reward.ucb_statistics_[idx].action_count_))

\* CostConstrainedStatistic::calculate_ucb_values: values[idx + 1] is the
\* code's values[idx]; the loop runs idx over 0 .. reward_stats.size() - 1
\* and .at(idx) throws for an idx that has no UcbPair
calculate_ucb_values(reward, cost, lambda, kappa_local) ==
  IF \E idx \in 0 .. (Cardinality(DOMAIN reward.ucb_statistics_) - 1) :
        \/ idx \notin DOMAIN cost.ucb_statistics_
        \/ idx \notin DOMAIN reward.ucb_statistics_
  THEN [status |-> "out_of_range"]
  ELSE [ status |-> "ok",
         values |-> [i \in 1 .. Cardinality(DOMAIN reward.ucb_statistics_) |->
                       UcbValue(reward, cost, lambda, kappa_local, i - 1)] ]

\* std::max_element: the index (from 0) of the first greatest element
MaxElement(values) ==
  CHOOSE i \in 0 .. (Len(values) - 1) :
    /\ \A j \in 0 .. (Len(values) - 1) : RLe(values[j + 1], values[i + 1])
    /\ \A j \in 0 .. (i - 1) : RLt(values[j + 1], values[i + 1])

\* sqrt(log(n) / n) of the filter, DBL_MAX for an action never visited
NodeCountTerm(n) == IF n = 0 THEN DblMax ELSE SqrtLogOver(n, n)

\* node_count_relations of the filter for an action visited n times
NodeCountRelations(n, node_counts_maximizing) ==
  IF n = 0 THEN DblMax ELSE RAdd(SqrtLogOver(n, n), node_counts_maximizing)

\* the indexes idx .. size - 1 that pass keep, in increasing order
RECURSIVE FilterFrom(_, _, _)
FilterFrom(keep, idx, size) ==
  IF idx >= size THEN <<>>
  ELSE (IF keep[idx] THEN <<idx>> ELSE <<>>) \o FilterFrom(keep, idx + 1, size)

\* IsFeasible with < in place of <=
IsFeasibleStrict(values, action_filter_factor_local, reward, maximizing_action, action_idx) ==
  RLt(RAbs(RSub(values[action_idx + 1], values[maximizing_action + 1])),
      RMul(action_filter_factor_local,
           NodeCountRelations(
             reward.ucb_statistics_[action_idx].action_count_,
             NodeCountTerm(
               reward.ucb_statistics_[maximizing_action].action_count_))))

\* the test of the filter's loop for action_idx
IsFeasible(values, action_filter_factor_local, reward, maximizing_action, action_idx) ==
  RLe(RAbs(RSub(values[action_idx + 1], values[maximizing_action + 1])),
      RMul(action_filter_factor_local,
           NodeCountRelations(
             reward.ucb_statistics_[action_idx].action_count_,
             NodeCountTerm(
               reward.ucb_statistics_[maximizing_action].action_count_))))

\* the loop of filter_feasible_actions around the maximizing action
FilterAround(values, action_filter_factor_local, reward, maximizing_action) ==
  FilterFrom([action_idx \in 0 .. (Len(values) - 1) |->
                IsFeasible(values, action_filter_factor_local, reward,
                           maximizing_action, action_idx)],
             0, Len(values))

\* CostConstrainedStatistic::filter_feasible_actions; on an empty vector
\* max_element returns end() and values[0] is read outside the vector
filter_feasible_actions(values, action_filter_factor_local, reward) ==
  IF values = <<>> THEN [status |-> "undefined"]
  ELSE [ status |-> "ok",
         actions |-> FilterAround(values, action_filter_factor_local, reward,
                                  MaxElement(values)) ]

\* LPScan with a loop that never updates minimizing_action
RECURSIVE LPScanMaxOnly(_, _, _, _, _)
LPScanMaxOnly(cost_stats, feasible_actions, i, amax, amin) ==
  IF i > Len(feasible_actions) THEN <<amax, amin>>
  ELSE IF RLt(cost_stats[amax].action_value_,
              cost_stats[feasible_actions[i]].action_value_)
  THEN LPScanMaxOnly(cost_stats, feasible_actions, i + 1, feasible_actions[i], amin)
  ELSE LPScanMaxOnly(cost_stats, feasible_actions, i + 1, amax, amin)

\* the loop of solve_LP_and_sample over feasible_actions[i ..]: the pair
\* <<maximizing_action, minimizing_action>> it ends with
RECURSIVE LPScan(_, _, _, _, _)
LPScan(cost_stats, feasible_actions, i, amax, amin) ==
  IF i > Len(feasible_actions) THEN <<amax, amin>>
  ELSE IF RLt(cost_stats[amax].action_value_,
              cost_stats[feasible_actions[i]].action_value_)
  THEN LPScan(cost_stats, feasible_actions, i + 1, feasible_actions[i], amin)
  ELSE IF RLt(cost_stats[feasible_actions[i]].action_value_,
              cost_stats[amin].action_value_)
  THEN LPScan(cost_stats, feasible_actions, i + 1, amax, feasible_actions[i])
  ELSE LPScan(cost_stats, feasible_actions, i + 1, amax, amin)

\* a PolicySampled: the pair <<action, policy>> and the number of draws the
\* call took from random_generator_
PolicySampled(action, policy, draws) ==
  [status |-> "ok", first |-> action, second |-> policy, draws |-> draws]

\* the policy with probability one on action
Deterministic(cost_stats, action) ==
  [a \in DOMAIN cost_stats |-> IF a = action THEN ROne ELSE RZero]

\* Mixed with stochastic_policy[minimizing_action] = probability_maximizer
MixedSame(cost_stats, maximizing_action, minimizing_action, probability_maximizer) ==
  [a \in DOMAIN cost_stats |->
     IF a = minimizing_action THEN probability_maximizer
     ELSE IF a = maximizing_action THEN probability_maximizer
     ELSE RZero]

\* the two-action policy of the third case of solve_LP_and_sample
Mixed(cost_stats, maximizing_action, minimizing_action, probability_maximizer) ==
  [a \in DOMAIN cost_stats |->
     IF a = minimizing_action THEN RSub(ROne, probability_maximizer)
     ELSE IF a = maximizing_action THEN probability_maximizer
     ELSE RZero]

\* the third case: the sample and the action it selects
SampleMixed(cost_stats, maximizing_action, minimizing_action, probability_maximizer, sample) ==
  PolicySampled(IF RLe(sample, probability_maximizer)
                THEN maximizing_action ELSE minimizing_action,
                Mixed(cost_stats, maximizing_action, minimizing_action,
                      probability_maximizer),
                1)

\* LPCases with probability_maximizer = (max_val - cost_constraint) /
\* (max_val - min_val)
LPCasesSwapped(cost_stats, maximizing_action, minimizing_action, max_val, min_val, cost_constraint, gen) ==
  IF minimizing_action = maximizing_action
  THEN PolicySampled(minimizing_action,
                     Deterministic(cost_stats, minimizing_action), 0)
  ELSE IF RLe(cost_constraint, min_val)
  THEN PolicySampled(minimizing_action,
                     Deterministic(cost_stats, minimizing_action), 0)
  ELSE IF RLe(max_val, cost_constraint)
  THEN PolicySampled(maximizing_action,
                     Deterministic(cost_stats, maximizing_action), 0)
  ELSE SampleMixed(cost_stats, maximizing_action, minimizing_action,
                   RDiv(RSub(max_val, cost_constraint), RSub(max_val, min_val)),
                   UniformReal(gen))

\* solve_LP_and_sample from the stochastic_policy on: the three cases
LPCases(cost_stats, maximizing_action, minimizing_action, max_val, min_val, cost_constraint, gen) ==
  IF minimizing_action = maximizing_action
  THEN PolicySampled(minimizing_action,
                     Deterministic(cost_stats, minimizing_action), 0)
  ELSE IF RLe(cost_constraint, min_val)
  THEN PolicySampled(minimizing_action,
                     Deterministic(cost_stats, minimizing_action), 0)
  ELSE IF RLe(max_val, cost_constraint)
  THEN PolicySampled(maximizing_action,
                     Deterministic(cost_stats, maximizing_action), 0)
  ELSE SampleMixed(cost_stats, maximizing_action, minimizing_action,
                   RDiv(RSub(cost_constraint, min_val), RSub(max_val, min_val)),
                   UniformReal(gen))

\* solve_LP_and_sample once the loop has found scan = <<maximizing_action,
\* minimizing_action>>
LPFromScan(cost_stats, scan, cost_constraint, gen) ==
  LPCases(cost_stats, scan[1], scan[2],
          cost_stats[scan[1]].action_value_, cost_stats[scan[2]].action_value_,
          cost_constraint, gen)

\* CostConstrainedStatistic::solve_LP_and_sample; gen is the state of
\* random_generator_ when the call starts
solve_LP_and_sample(cost, feasible_actions, cost_constraint, gen) ==
  IF feasible_actions = <<>> THEN [status |-> "out_of_range"]
  ELSE IF \E i \in 1 .. Len(feasible_actions) :
             feasible_actions[i] \notin DOMAIN cost.ucb_statistics_
  THEN [status |-> "out_of_range"]
  ELSE LPFromScan(cost.ucb_statistics_,
                  LPScan(cost.ucb_statistics_, feasible_actions, 1,
                         feasible_actions[1], feasible_actions[1]),
                  cost_constraint, gen)

\* GreedyFromFeasible with every action passed on, filtered or not
GreedyFromAll(cost, feasible, cost_constraint, gen) ==
  IF feasible.status # "ok" THEN feasible
  ELSE solve_LP_and_sample(cost, Iota(Cardinality(DOMAIN cost.ucb_statistics_)),
                           cost_constraint, gen)

\* greedy_policy from the filter's result on
GreedyFromFeasible(cost, feasible, cost_constraint, gen) ==
  IF feasible.status # "ok" THEN feasible
  ELSE solve_LP_and_sample(cost, feasible.actions, cost_constraint, gen)

\* greedy_policy from the vector of UCB values on
GreedyFromValues(reward, cost, ucb_values, cost_constraint, action_filter_factor_local, gen) ==
  IF ucb_values.status # "ok" THEN ucb_values
  ELSE GreedyFromFeasible(
         cost,
         filter_feasible_actions(ucb_values.values, action_filter_factor_local,
                                 reward),
         cost_constraint, gen)

\* CostConstrainedStatistic::greedy_policy
greedy_policy(reward, cost, lambda, cost_constraint, kappa_local, action_filter_factor_local, gen) ==
  GreedyFromValues(reward, cost,
                   calculate_ucb_values(reward, cost, lambda, kappa_local),
                   cost_constraint, action_filter_factor_local, gen)

\* the least key of the non-empty set S of keys of a std::map
FirstKey(S) == CHOOSE y \in S : \A z \in S : y <= z

\* the loop of expected_policy_cost over the entries with keys S, in the
\* order of the map, expected_cost the sum so far
RECURSIVE AddCosts(_, _, _, _)
AddCosts(expected_cost, cost_stats, policy, S) ==
  IF S = {} THEN expected_cost
  ELSE AddCosts(RAdd(expected_cost,
                     RMul(policy[FirstKey(S)],
                          cost_stats[FirstKey(S)].action_value_)),
                cost_stats, policy, S \ {FirstKey(S)})

\* CostConstrainedStatistic::expected_policy_cost
expected_policy_cost(cost, policy) ==
  AddCosts(RZero, cost.ucb_statistics_, policy, DOMAIN cost.ucb_statistics_)

\* CostConstrainedStatistic::get_normalized_cost_action_value
get_normalized_cost_action_value(cost, action) ==
  get_normalized_ucb_value(cost, action)

\* CostConstrainedStatistic::policy_is_ready
policy_is_ready(unexpanded) == unexpanded = <<>>

\* Expand without unexpanded_actions_.erase
ExpandKeep(unexpanded, array_idx, gen) ==
  [ status |-> "ok",
    action |-> unexpanded[array_idx + 1],
    unexpanded |-> unexpanded,
    gen |-> RngAdvance(gen),
    greedy |-> FALSE ]

\* the expansion branch of choose_next_action
Expand(unexpanded, array_idx, gen) ==
  [ status |-> "ok",
    action |-> unexpanded[array_idx + 1],
    unexpanded |-> Erase(unexpanded, array_idx),
    gen |-> RngAdvance(gen),
    greedy |-> FALSE ]

\* the greedy branch of choose_next_action, g the result of greedy_policy
Exploit(g, unexpanded, gen) ==
  IF g.status # "ok"
  THEN [ status |-> g.status, action |-> 0, unexpanded |-> unexpanded,
         gen |-> gen, greedy |-> TRUE ]
  ELSE [ status |-> "ok", action |-> g.first, unexpanded |-> unexpanded,
         gen |-> RngAfter(gen, g.draws), greedy |-> TRUE ]

\* CostConstrainedStatistic::choose_next_action: the action returned, the
\* vector unexpanded_actions_ and the generator it leaves, and whether it
\* consulted greedy_policy
choose_next_action(reward, cost, unexpanded, p, gen) ==
  IF unexpanded = <<>>
  THEN Exploit(greedy_policy(reward, cost, p.Lambda, p.COST_CONSTRAINT,
                             p.KAPPA, p.ACTION_FILTER_FACTOR, gen),
               unexpanded, gen)
  ELSE Expand(unexpanded, UniformInt(gen, Len(unexpanded) - 1), gen)

\* CostConstrainedStatistic::get_best_action
get_best_action(reward, cost, p, gen) ==
  greedy_policy(reward, cost, p.Lambda, p.COST_CONSTRAINT,
                RZero, p.ACTION_FILTER_FACTOR, gen)

\* CostConstrainedStatistic::get_policy
get_policy(reward, cost, p, gen) ==
  greedy_policy(reward, cost, p.Lambda, p.COST_CONSTRAINT,
                RZero, p.ACTION_FILTER_FACTOR, gen)

\* CostConstrainedStatistic::update_from_heuristic: the two UctStatistic
\* members it leaves
update_from_heuristic(reward, cost, heuristic_reward_value, heuristic_cost_value) ==
  [ reward |-> update_from_heuristic_from_backpropagated(reward, heuristic_reward_value),
    cost |-> update_from_heuristic_from_backpropagated(cost, heuristic_cost_value) ]

\* the mean step cost updated with the visits of the node as divisor
MeanStepCostsOverNodeVisits(mean_step_costs, collected_cost_, c) ==
  [mean_step_costs EXCEPT ![collected_cost_[1]] =
     RunningMean(@, collected_cost_[2], c.total_node_visits_)]

\* the last statement of update_statistic, c the updated cost statistic
UpdateMeanStepCosts(mean_step_costs, collected_cost_, c) ==
  [mean_step_costs EXCEPT ![collected_cost_[1]] =
     RunningMean(@, collected_cost_[2],
                 c.ucb_statistics_[collected_cost_[1]].action_count_)]

\* update_statistic once the two UctStatistic members are updated to r, c
UpdatedStatistic(r, c, mean_step_costs, collected_cost_) ==
  [ reward |-> r, cost |-> c,
    mean_step_costs |-> UpdateMeanStepCosts(mean_step_costs, collected_cost_, c) ]

\* update_statistic with the cost backpropagated to action 0 whatever the
\* collected action is
UpdateCostOfFirstAction(reward, cost, mean_step_costs, collected_reward_, collected_cost_, reward_latest_return, cost_latest_return) ==
  [ reward |-> update_statistics_from_backpropagated(reward, collected_reward_,
                                                     reward_latest_return),
    cost |-> update_statistics_from_backpropagated(cost, <<0, collected_cost_[2]>>,
                                                   cost_latest_return),
    mean_step_costs |-> mean_step_costs ]

\* CostConstrainedStatistic::update_statistic: the members it leaves
update_statistic(reward, cost, mean_step_costs, collected_reward_, collected_cost_, reward_latest_return, cost_latest_return) ==
  UpdatedStatistic(
    update_statistics_from_backpropagated(reward, collected_reward_,
                                          reward_latest_return),
    update_statistics_from_backpropagated(cost, collected_cost_,
                                          cost_latest_return),
    mean_step_costs, collected_cost_)

\* the upper limit of the projection of calculate_next_lambda
clip_upper_limit(reward, tau_gradient_clip, discount_factor) ==
  RDiv(RSub(reward.upper_bound, reward.lower_bound),
       RMul(tau_gradient_clip, RSub(ROne, discount_factor)))

\* Clip without the lower limit
ClipAbove(new_lambda, upper_limit) == RMin(new_lambda, upper_limit)

\* min(max(new_lambda, 0), clip_upper_limit)
Clip(new_lambda, upper_limit) == RMin(RMax(new_lambda, RZero), upper_limit)

\* calculate_next_lambda from the result g of greedy_policy(0.0f, 0.0f) on
NextLambda(g, current_lambda, gradient_update_step, cost_constraint, tau_gradient_clip, reward, cost, discount_factor) ==
  IF g.status # "ok" THEN [status |-> g.status]
  ELSE [ status |-> "ok",
         lambda |->
           Clip(RAdd(current_lambda,
                     RMul(gradient_update_step,
                          RSub(get_normalized_cost_action_value(cost, g.first),
                               cost_constraint))),
                clip_upper_limit(reward, tau_gradient_clip, discount_factor)),
         draws |-> g.draws ]

\* CostConstrainedStatistic::calculate_next_lambda on the root statistic
\* <<reward, cost>>: the clipped lambda and the draws of its greedy_policy
calculate_next_lambda(current_lambda, gradient_update_step, cost_constraint, tau_gradient_clip, reward, cost, discount_factor, gen) ==
  NextLambda(greedy_policy(reward, cost, current_lambda, cost_constraint,
                           RZero, RZero, gen),
             current_lambda, gradient_update_step, cost_constraint,
             tau_gradient_clip, reward, cost, discount_factor)

\* GRADIENT_UPDATE_STEP / (0.1 * current_iteration + 1)
GradientUpdateStep(p, iteration) ==
  RDiv(p.GRADIENT_UPDATE_STEP, RAdd(RMul(Rat(1, 10), FromInt(iteration)), ROne))

\* update_statistic_parameters from the result of calculate_next_lambda on
WriteLambda(p, new_lambda, gen) ==
  IF new_lambda.status # "ok"
  THEN [ status |-> new_lambda.status, parameters |-> p, gen |-> gen,
         greedy |-> TRUE ]
  ELSE [ status |-> "ok",
         parameters |-> [p EXCEPT !.Lambda = new_lambda.lambda],
         gen |-> RngAfter(gen, new_lambda.draws),
         greedy |-> TRUE ]

\* update_statistic_parameters without the return on !policy_is_ready()
UpdateUnguarded(p, reward, cost, unexpanded, iteration, gen) ==
  WriteLambda(
    p,
    calculate_next_lambda(p.Lambda, GradientUpdateStep(p, iteration),
                          p.COST_CONSTRAINT, p.TAU_GRADIENT_CLIP,
                          reward, cost, p.DISCOUNT_FACTOR, gen),
    gen)

\* NodeStatistic<CostConstrainedStatistic>::update_statistic_parameters: the
\* parameters and the generator it leaves, and whether it evaluated
\* greedy_policy
update_statistic_parameters(p, reward, cost, unexpanded, iteration, gen) ==
  IF ~policy_is_ready(unexpanded)
  THEN [status |-> "ok", parameters |-> p, gen |-> gen, greedy |-> FALSE]
  ELSE WriteLambda(
         p,
         calculate_next_lambda(p.Lambda, GradientUpdateStep(p, iteration),
                               p.COST_CONSTRAINT, p.TAU_GRADIENT_CLIP,
                               reward, cost, p.DISCOUNT_FACTOR, gen),
         gen)

(***************************************************************************)
(* The state: one node's CostConstrainedStatistic, the MctsParameters      *)
(* object the search owns (the statistic's lambda is a reference to its    *)
(* Lambda), the static generator, and the position of the search at this   *)
(* node.                                                                   *)
(***************************************************************************)
VARIABLES
  parameters,            \* MctsParameters of the search
  reward_statistic_,     \* CostConstrainedStatistic::reward_statistic_
  cost_statistic_,       \* CostConstrainedStatistic::cost_statistic_
  unexpanded_actions_,   \* CostConstrainedStatistic::unexpanded_actions_
  mean_step_costs_,      \* CostConstrainedStatistic::mean_step_costs_
  random_generator_,     \* RandomGenerator::random_generator_
  is_root,               \* whether the node is the root of the tree
  pc,                    \* what the search does next at this node
  current_iteration,     \* iterations of the search completed at this node
  collected,             \* the action of collected_reward_ / collected_cost_
  returned,              \* actions choose_next_action returned by expansion
  heuristic_updates,     \* calls of update_from_heuristic on this node
  last_call,             \* the last member function called and its outcome
  best_calls,            \* outcomes of get_best_action since the last update
  uct_statistic_,        \* a UctStatistic that is the node's statistic itself
  recorded,              \* what was backpropagated to the node, per action
  runner,                \* a CrossingStateEpisodeRunner and the locals of run
  agent_policy,          \* an AgentPolicyCrossingState and a call's arguments
  planning               \* the planning calls of SpecPlan: which one runs,
                         \* its choices so far, the result of the first

vars == <<significand, recorded, runner, agent_policy, uct_statistic_,
          planning, parameters, reward_statistic_, cost_statistic_, unexpanded_actions_,
          mean_step_costs_, random_generator_, is_root, pc, current_iteration,
          collected, returned, heuristic_updates, last_call, best_calls>>

\* the values of LAMBDA a search is configured with: the negative
\* lambda_desired_max of CostConstrainedTest::SetUp, zero, and one above the
\* upper limit of the projection
InitialLambdas == {Rat(-1, 10), RZero, FromInt(21)}

\* the values of COST_CONSTRAINT
CostConstraints == {Rat(1, 2)}

\* the parameters of CostConstrainedTest::SetUp; Lambda and COST_CONSTRAINT
\* are its arguments
ParameterChoices ==
  { [ DISCOUNT_FACTOR |-> Rat(9, 10),
      Lambda |-> l,                 \* LAMBDA (a reserved word of TLA+)
      KAPPA |-> FromInt(1),
      ACTION_FILTER_FACTOR |-> FromInt(1),
      COST_CONSTRAINT |-> c,
      COST_LOWER_BOUND |-> RZero,
      COST_UPPER_BOUND |-> ROne,
      REWARD_LOWER_BOUND |-> RZero,
      REWARD_UPPER_BOUND |-> FromInt(2),
      GRADIENT_UPDATE_STEP |-> Rat(1, 10),
      TAU_GRADIENT_CLIP |-> ROne ] :
    l \in InitialLambdas, c \in CostConstraints }

\* make_reward_statistic_parameters and the UctStatistic built from them
make_reward_statistic(p) ==
  UctStatistic(num_actions, p.REWARD_LOWER_BOUND, p.REWARD_UPPER_BOUND,
               p.DISCOUNT_FACTOR)

\* a cost statistic that discounts as the reward statistic does
make_discounted_cost_statistic(p) ==
  UctStatistic(num_actions, p.COST_LOWER_BOUND, p.COST_UPPER_BOUND,
               p.DISCOUNT_FACTOR)

\* make_cost_statistic_parameters (DISCOUNT_FACTOR = 1.0) and the
\* UctStatistic built from them
make_cost_statistic(p) ==
  UctStatistic(num_actions, p.COST_LOWER_BOUND, p.COST_UPPER_BOUND, ROne)

\* the members of a statistic that has not been constructed
NoStatistic == [total_node_visits_ |-> 0]

NoCall == [op |-> "none"]

\* nothing is recorded, no runner and no agent policy exist
NoRecord == [n |-> 0]
NoRunner == [max_steps_ |-> 0]
NoAgentPolicy == [ego_distance |-> 0]
NoPlanning == [call |-> 0]

\* CostConstrainedStatistic::CostConstrainedStatistic at a node the search
\* has just created; the root is not seeded by a heuristic
Init ==
  /\ significand = 0
  /\ recorded = NoRecord
  /\ runner = NoRunner
  /\ agent_policy = NoAgentPolicy
  /\ uct_statistic_ = NoStatistic
  /\ planning = NoPlanning
  /\ parameters \in ParameterChoices
  /\ reward_statistic_ = make_reward_statistic(parameters)
  /\ cost_statistic_ = make_cost_statistic(parameters)
  /\ unexpanded_actions_ = Iota(num_actions)
  /\ mean_step_costs_ = [a \in ActionIdx |-> RZero]
  /\ random_generator_ \in 0 .. (RngPeriod - 1)
  /\ is_root \in BOOLEAN
  /\ pc = IF is_root THEN "select" ELSE "created"
  /\ current_iteration = 0
  /\ collected = 0
  /\ returned = {}
  /\ heuristic_updates = 0
  /\ last_call = NoCall
  /\ best_calls = <<>>

(***************************************************************************)
(* What the environment and the rest of the tree feed into the node: the   *)
(* immediate ego reward and cost of the edge and the latest returns of the *)
(* child (reward, cost), all within the configured bounds.                 *)
(***************************************************************************)
Backpropagated ==
  { [reward |-> RZero, cost |-> RZero, child_reward |-> RZero, child_cost |-> RZero],
    [reward |-> FromInt(2), cost |-> RZero, child_reward |-> RZero, child_cost |-> RZero],
    [reward |-> RZero, cost |-> ROne, child_reward |-> RZero, child_cost |-> RZero],
    [reward |-> RZero, cost |-> RZero, child_reward |-> ROne, child_cost |-> ROne] }

\* value_ of the reward and of the cost statistic of a heuristic
Heuristics == { <<RZero, RZero>>, <<ROne, ROne>> }

(***************************************************************************)
(* The steps of the search at the node.                                    *)
(***************************************************************************)
\* a leaf is seeded with the heuristic's estimate when it is created
UpdateFromHeuristic ==
  /\ pc = "created"
  /\ \E h \in Heuristics :
       \E u \in {update_from_heuristic(reward_statistic_, cost_statistic_,
                                       h[1], h[2])} :
         /\ reward_statistic_' = u.reward
         /\ cost_statistic_' = u.cost
  /\ pc' = "select"
  /\ heuristic_updates' = heuristic_updates + 1
  /\ last_call' = [op |-> "update_from_heuristic"]
  /\ best_calls' = <<>>
  /\ UNCHANGED <<significand, recorded, runner, agent_policy, uct_statistic_,
                 planning, parameters, unexpanded_actions_, mean_step_costs_,
                 random_generator_, is_root, current_iteration, collected,
                 returned>>

\* selection: the search asks the node for the ego action of this iteration
ChooseNextAction ==
  /\ pc = "select"
  /\ current_iteration < MaxIterations
  /\ \E c \in {choose_next_action(reward_statistic_, cost_statistic_,
                                  unexpanded_actions_, parameters,
                                  random_generator_)} :
       /\ unexpanded_actions_' = c.unexpanded
       /\ random_generator_' = c.gen
       /\ collected' = c.action
       /\ returned' = IF c.greedy THEN returned ELSE returned \cup {c.action}
       /\ last_call' = [op |-> "choose_next_action", status |-> c.status,
                        action |-> c.action, greedy |-> c.greedy,
                        call |-> current_iteration + 1]
       /\ pc' = IF c.status = "ok" THEN "backprop" ELSE "aborted"
  /\ best_calls' = <<>>
  /\ UNCHANGED <<significand, recorded, runner, agent_policy, uct_statistic_,
                 planning, parameters, reward_statistic_, cost_statistic_,
                 mean_step_costs_, is_root, current_iteration,
                 heuristic_updates>>

\* backpropagation: the node consumes the child's latest returns and the
\* immediate reward and cost collected on the edge of the chosen action
UpdateStatistic ==
  /\ pc = "backprop"
  /\ \E b \in Backpropagated :
       \E u \in {update_statistic(reward_statistic_, cost_statistic_,
                                  mean_step_costs_,
                                  <<collected, b.reward>>, <<collected, b.cost>>,
                                  b.child_reward, b.child_cost)} :
         /\ reward_statistic_' = u.reward
         /\ cost_statistic_' = u.cost
         /\ mean_step_costs_' = u.mean_step_costs
  /\ pc' = IF is_root THEN "adapt" ELSE "select"
  /\ current_iteration' = IF is_root THEN current_iteration
                          ELSE current_iteration + 1
  /\ last_call' = [op |-> "update_statistic"]
  /\ best_calls' = <<>>
  /\ UNCHANGED <<significand, recorded, runner, agent_policy, uct_statistic_,
                 planning, parameters, unexpanded_actions_, random_generator_, is_root,
                 collected, returned, heuristic_updates>>

\* the lambda adapter, once per iteration after backpropagation to the root
UpdateStatisticParameters ==
  /\ pc = "adapt"
  /\ \E u \in {update_statistic_parameters(parameters, reward_statistic_,
                                           cost_statistic_, unexpanded_actions_,
                                           current_iteration, random_generator_)} :
       /\ parameters' = u.parameters
       /\ random_generator_' = u.gen
       /\ last_call' = [op |-> "update_statistic_parameters",
                        status |-> u.status, greedy |-> u.greedy,
                        ready |-> policy_is_ready(unexpanded_actions_)]
       /\ pc' = IF u.status = "ok" THEN "select" ELSE "aborted"
  /\ current_iteration' = current_iteration + 1
  /\ best_calls' = <<>>
  /\ UNCHANGED <<significand, recorded, runner, agent_policy, uct_statistic_,
                 planning, reward_statistic_, cost_statistic_, unexpanded_actions_,
                 mean_step_costs_, is_root, collected, returned,
                 heuristic_updates>>

\* how a call that left defined behaviour can end in a build
Ends(status) ==
  IF status = "undefined" THEN {"crash", "out_of_range"} ELSE {status}

\* what a caller of get_best_action observes
Observed(g, end) ==
  IF end = "ok" THEN [status |-> "ok", action |-> g.first, policy |-> g.second]
  ELSE [status |-> end]

\* returnBestAction: get_best_action on the root statistic, when the search
\* has ended after current_iteration iterations, and once more after that
GetBestAction ==
  /\ is_root
  /\ pc \in {"select", "done"}
  /\ Len(best_calls) < 2
  /\ \E g \in {get_best_action(reward_statistic_, cost_statistic_, parameters,
                               random_generator_)} :
       /\ \E e \in Ends(g.status) :
            /\ best_calls' = Append(best_calls, Observed(g, e))
            /\ last_call' = [op |-> "get_best_action", status |-> e]
       /\ random_generator_' =
            IF g.status = "ok" THEN RngAfter(random_generator_, g.draws)
            ELSE random_generator_
  /\ pc' = "done"
  /\ UNCHANGED <<significand, recorded, runner, agent_policy, uct_statistic_,
                 planning, parameters, reward_statistic_, cost_statistic_,
                 unexpanded_actions_, mean_step_costs_, is_root,
                 current_iteration, collected, returned, heuristic_updates>>

Next ==
  \/ UpdateFromHeuristic
  \/ ChooseNextAction
  \/ UpdateStatistic
  \/ UpdateStatisticParameters
  \/ GetBestAction

Spec == Init /\ [][Next]_vars

(***************************************************************************)
(* Properties of the statistic during a search (Spec).                     *)
(***************************************************************************)
\* the sum of action_count_ over the entries with keys S of ucb_statistics_
RECURSIVE CountSum(_, _)
CountSum(ucb_statistics, S) ==
  IF S = {} THEN 0
  ELSE ucb_statistics[FirstKey(S)].action_count_
       + CountSum(ucb_statistics, S \ {FirstKey(S)})

ActionCountSum(stat) ==
  CountSum(stat.ucb_statistics_, DOMAIN stat.ucb_statistics_)

\* C1 as stated: at every node, after any sequence of choose_next_action,
\* update_from_heuristic and update_statistic calls, total_node_visits_ of
\* the reward statistic equals the sum of its per-action visit counts.
C1_VisitsEqualActionCounts ==
  reward_statistic_.total_node_visits_ = ActionCountSum(reward_statistic_)

\* C1 as amended: total_node_visits_ of the reward statistic equals the sum
\* of its per-action visit counts plus the number of update_from_heuristic
\* calls made on the node.
C1_VisitsEqualActionCountsPlusHeuristic ==
  reward_statistic_.total_node_visits_ =
    ActionCountSum(reward_statistic_) + heuristic_updates

\* a node seeded by a heuristic that has been backpropagated through twice
C1_Witness ==
  /\ heuristic_updates = 1
  /\ last_call.op = "update_statistic"
  /\ ActionCountSum(reward_statistic_) = 2

\* C2 as stated: get_best_action is idempotent: two consecutive calls with no
\* update in between return the same action, also when the LP yields a mixed
\* two-action policy.
C2_GetBestActionIdempotent ==
  (/\ Len(best_calls) = 2
   /\ best_calls[1].status = "ok"
   /\ best_calls[2].status = "ok")
  => best_calls[1].action = best_calls[2].action

\* the upper limit of the projection for the parameters of the search
ClipUpperLimit ==
  clip_upper_limit(reward_statistic_, parameters.TAU_GRADIENT_CLIP,
                   parameters.DISCOUNT_FACTOR)

LambdaInRange ==
  RLe(RZero, parameters.Lambda) /\ RLe(parameters.Lambda, ClipUpperLimit)

\* C3 as stated: after every invocation of update_statistic_parameters, for
\* any initial LAMBDA and any root state (also one with unexpanded actions),
\* LAMBDA lies in [0, (REWARD_UPPER_BOUND - REWARD_LOWER_BOUND) /
\* (TAU_GRADIENT_CLIP * (1 - DISCOUNT_FACTOR))].
C3_LambdaInRangeAfterAdapter ==
  last_call.op = "update_statistic_parameters" => LambdaInRange

\* C3 as amended: after every invocation of update_statistic_parameters on a
\* root with no unexpanded actions, LAMBDA lies in that interval.
C3_LambdaInRangeAfterReadyAdapter ==
  (last_call.op = "update_statistic_parameters" /\ last_call.ready)
  => (last_call.status = "ok" /\ LambdaInRange)

\* the adapter ran on a fully expanded root and projected onto the upper limit
C3_Witness ==
  /\ last_call.op = "update_statistic_parameters"
  /\ last_call.ready
  /\ parameters.Lambda = ClipUpperLimit

\* C4 as stated: for any iteration count and any order of expansion,
\* get_best_action on the root statistic returns normally with an action
\* index in [0, num_actions).
C4_GetBestActionInRange ==
  \A i \in 1 .. Len(best_calls) :
    best_calls[i].status = "ok" /\ best_calls[i].action \in ActionIdx

\* C8: on a fresh statistic the first num_actions calls of choose_next_action
\* return every action exactly once, each removed from unexpanded_actions_
\* when returned; greedy_policy is consulted only from call num_actions + 1
\* on; no call returns an action outside [0, num_actions).
C8_ExpandsBeforeExploiting ==
  last_call.op = "choose_next_action" =>
    /\ last_call.status = "ok" => last_call.action \in ActionIdx
    /\ last_call.greedy => last_call.call > num_actions
    /\ last_call.call <= num_actions =>
         /\ last_call.status = "ok"
         /\ ~last_call.greedy
         /\ last_call.action \in returned
         /\ Cardinality(returned) = last_call.call
         /\ Elems(unexpanded_actions_) = ActionIdx \ returned
         /\ Len(unexpanded_actions_) = num_actions - last_call.call

\* call num_actions + 1 consulted greedy_policy after a permutation
C8_Witness ==
  /\ last_call.op = "choose_next_action"
  /\ last_call.call = num_actions + 1
  /\ last_call.greedy
  /\ returned = ActionIdx

\* C9: while the root has an unexpanded action, update_statistic_parameters
\* leaves every parameter unchanged and does not evaluate greedy_policy (nor
\* draw from the generator); LAMBDA is written only by an adapter call on a
\* root whose unexpanded set is empty.
C9_AdapterSkipsUnexpandedRoot ==
  [][ /\ (pc = "adapt" /\ ~policy_is_ready(unexpanded_actions_))
         => /\ parameters' = parameters
            /\ random_generator_' = random_generator_
            /\ ~last_call'.greedy
      /\ parameters'.Lambda # parameters.Lambda
         => (pc = "adapt" /\ unexpanded_actions_ = <<>>) ]_vars

\* the adapter was invoked on a root with an unexpanded action
C9_Witness ==
  /\ last_call.op = "update_statistic_parameters"
  /\ ~last_call.ready
  /\ unexpanded_actions_ # <<>>

(***************************************************************************)
(* SpecLP: solve_LP_and_sample and expected_policy_cost as functions of    *)
(* the cost statistic, the feasible actions, COST_CONSTRAINT and the       *)
(* generator, in arithmetic without rounding error and in floating-point   *)
(* arithmetic with SignificandBits bits.                                   *)
(***************************************************************************)
\* cost action values and cost constraints, as doubles
LPCostValues ==
  {Round(x) : x \in {RZero, Rat(1, 7), Rat(1, 2), Rat(4, 5), Rat(5, 6), ROne}}
LPCostConstraints ==
  {Round(x) : x \in {RZero, Rat(1, 2), Rat(4, 5), ROne}}

\* a cost statistic whose actions all have an action value
LPCostStatistic(p, values) ==
  [make_cost_statistic(p) EXCEPT
     !.ucb_statistics_ = [a \in ActionIdx |->
                            [action_count_ |-> 1, action_value_ |-> values[a]]],
     !.total_node_visits_ = num_actions]

\* the non-empty vectors of distinct actions
FeasibleVectors ==
  {v \in UNION {[1 .. k -> ActionIdx] : k \in 1 .. num_actions} :
     \A i, j \in DOMAIN v : i # j => v[i] # v[j]}

InitLP ==
  /\ significand \in {0, SignificandBits}
  /\ recorded = NoRecord
  /\ runner = NoRunner
  /\ agent_policy = NoAgentPolicy
  /\ uct_statistic_ = NoStatistic
  /\ planning = NoPlanning
  /\ parameters \in {[p EXCEPT !.COST_CONSTRAINT = c] :
                       p \in {q \in ParameterChoices : q.Lambda = RZero},
                       c \in LPCostConstraints}
  /\ reward_statistic_ = make_reward_statistic(parameters)
  /\ cost_statistic_ \in {LPCostStatistic(parameters, values) :
                            values \in [ActionIdx -> LPCostValues]}
  /\ unexpanded_actions_ = <<>>
  /\ mean_step_costs_ = [a \in ActionIdx |-> RZero]
  /\ random_generator_ \in 0 .. (RngPeriod - 1)
  /\ is_root = TRUE
  /\ pc = "lp"
  /\ current_iteration = 0
  /\ collected = 0
  /\ returned = {}
  /\ heuristic_updates = 0
  /\ last_call = NoCall
  /\ best_calls = <<>>

\* one call of solve_LP_and_sample
SolveLPAndSample ==
  /\ pc = "lp"
  /\ \E feasible_actions \in FeasibleVectors :
       \E r \in {solve_LP_and_sample(cost_statistic_, feasible_actions,
                                     parameters.COST_CONSTRAINT,
                                     random_generator_)} :
         /\ last_call' = [op |-> "solve_LP_and_sample",
                          feasible_actions |-> feasible_actions,
                          status |-> r.status,
                          first |-> r.first, second |-> r.second]
         /\ random_generator_' = RngAfter(random_generator_, r.draws)
  /\ pc' = "lp_done"
  /\ UNCHANGED <<significand, recorded, runner, agent_policy, uct_statistic_,
                 planning, parameters, reward_statistic_,
                 cost_statistic_, unexpanded_actions_, mean_step_costs_,
                 is_root, current_iteration, collected, returned,
                 heuristic_updates, best_calls>>

\* expected_policy_cost of the policy that solve_LP_and_sample returned
ExpectedPolicyCost ==
  /\ pc = "lp_done"
  /\ last_call' = [op |-> "expected_policy_cost",
                   feasible_actions |-> last_call.feasible_actions,
                   status |-> last_call.status,
                   first |-> last_call.first, second |-> last_call.second,
                   expected_cost |->
                     expected_policy_cost(cost_statistic_, last_call.second)]
  /\ pc' = "lp_cost"
  /\ UNCHANGED <<significand, recorded, runner, agent_policy, uct_statistic_,
                 planning, parameters, reward_statistic_,
                 cost_statistic_, unexpanded_actions_, mean_step_costs_,
                 random_generator_, is_root, current_iteration, collected,
                 returned, heuristic_updates, best_calls>>

NextLP ==
  \/ SolveLPAndSample
  \/ ExpectedPolicyCost

SpecLP == InitLP /\ [][NextLP]_vars

(***************************************************************************)
(* Properties of solve_LP_and_sample (SpecLP).                             *)
(***************************************************************************)
\* solve_LP_and_sample has returned
LPReturned == pc \in {"lp_done", "lp_cost"}

\* the cost action value of an action
CostOf(a) == cost_statistic_.ucb_statistics_[a].action_value_

\* the actions of the policy with a probability other than zero
Support(policy) == {a \in DOMAIN policy : policy[a] # RZero}

\* the probabilities of a policy added up in the order of its keys
RECURSIVE AddProbabilities(_, _, _)
AddProbabilities(sum, policy, S) ==
  IF S = {} THEN sum
  ELSE AddProbabilities(RAdd(sum, policy[FirstKey(S)]), policy,
                        S \ {FirstKey(S)})

\* C5: for every non-empty feasible set and every assignment of cost action
\* values, the policy solve_LP_and_sample returns has entries in [0, 1], is
\* nonzero on at most two actions, sums to 1, and gives the selected action a
\* nonzero probability.
C5_PolicyIsDistribution ==
  LPReturned =>
    /\ last_call.status = "ok"
    /\ DOMAIN last_call.second = ActionIdx
    /\ \A a \in ActionIdx :
         RLe(RZero, last_call.second[a]) /\ RLe(last_call.second[a], ROne)
    /\ Cardinality(Support(last_call.second)) <= 2
    /\ AddProbabilities(RZero, last_call.second, ActionIdx) = ROne
    /\ last_call.first \in Support(last_call.second)

\* a mixed policy in floating-point arithmetic whose sample selected the
\* minimizing action
C5_Witness ==
  /\ LPReturned
  /\ significand = SignificandBits
  /\ Cardinality(Support(last_call.second)) = 2
  /\ \E a \in Support(last_call.second) : RLt(CostOf(last_call.first), CostOf(a))

\* the policy C6 describes for a_max, a_min and C_max
C6_Policy(a_max, a_min, C_max) ==
  IF a_max = a_min THEN [a \in ActionIdx |-> IF a = a_max THEN ROne ELSE RZero]
  ELSE IF RLe(C_max, CostOf(a_min))
  THEN [a \in ActionIdx |-> IF a = a_min THEN ROne ELSE RZero]
  ELSE IF RLe(CostOf(a_max), C_max)
  THEN [a \in ActionIdx |-> IF a = a_max THEN ROne ELSE RZero]
  ELSE [a \in ActionIdx |->
          IF a = a_max
          THEN RDiv(RSub(C_max, CostOf(a_min)), RSub(CostOf(a_max), CostOf(a_min)))
          ELSE IF a = a_min
          THEN RSub(ROne, RDiv(RSub(C_max, CostOf(a_min)),
                               RSub(CostOf(a_max), CostOf(a_min))))
          ELSE RZero]

\* C6: solve_LP_and_sample takes a_max and a_min as feasible actions with the
\* greatest and the least cost action value and returns probability 1 on that
\* action if a_max = a_min; else 1 on a_min if cost[a_min] >= C_max; else 1 on
\* a_max if cost[a_max] <= C_max; else p = (C_max - cost[a_min]) /
\* (cost[a_max] - cost[a_min]) on a_max and 1 - p on a_min; every other action
\* gets probability 0.
C6_PolicyByCases ==
  LPReturned =>
    \E a_max, a_min \in Elems(last_call.feasible_actions) :
      /\ \A a \in Elems(last_call.feasible_actions) :
           RLe(CostOf(a), CostOf(a_max)) /\ RLe(CostOf(a_min), CostOf(a))
      /\ last_call.second = C6_Policy(a_max, a_min, parameters.COST_CONSTRAINT)

\* the fourth case with a third action that is neither a_max nor a_min
C6_Witness ==
  /\ LPReturned
  /\ Len(last_call.feasible_actions) = 3
  /\ Cardinality(Support(last_call.second)) = 2
  /\ Cardinality({CostOf(a) : a \in ActionIdx}) = 3

\* the least and the greatest cost action value of the feasible actions
MinCost ==
  CHOOSE x \in {CostOf(a) : a \in Elems(last_call.feasible_actions)} :
    \A a \in Elems(last_call.feasible_actions) : RLe(x, CostOf(a))
MaxCost ==
  CHOOSE x \in {CostOf(a) : a \in Elems(last_call.feasible_actions)} :
    \A a \in Elems(last_call.feasible_actions) : RLe(CostOf(a), x)

\* cost[a_min] <= C_max <= cost[a_max], and expected_policy_cost has run
C7_Case ==
  /\ pc = "lp_cost"
  /\ RLe(MinCost, parameters.COST_CONSTRAINT)
  /\ RLe(parameters.COST_CONSTRAINT, MaxCost)

\* C7 as stated: whenever cost[a_min] <= C_max <= cost[a_max], the expected
\* cost of the returned policy equals C_max exactly.
C7_ExpectedCostIsConstraint ==
  C7_Case => last_call.expected_cost = parameters.COST_CONSTRAINT

\* sixteen units of roundoff of the larger of |cost[a_min]| and |cost[a_max]|
RoundoffBound ==
  QMul(Rat(16, 2^significand), RMax(RAbs(MinCost), RAbs(MaxCost)))

\* C7 as amended: whenever cost[a_min] <= C_max <= cost[a_max], the expected
\* cost of the returned policy equals C_max exactly in arithmetic without
\* rounding error and in the boundary cases cost[a_min] = C_max and
\* cost[a_max] = C_max; otherwise, in floating-point arithmetic, it differs
\* from C_max by at most sixteen units of roundoff of the larger cost.
C7_ExpectedCostNearConstraint ==
  C7_Case =>
    IF \/ significand = 0
       \/ parameters.COST_CONSTRAINT = MinCost
       \/ parameters.COST_CONSTRAINT = MaxCost
    THEN last_call.expected_cost = parameters.COST_CONSTRAINT
    ELSE RLe(RAbs(QSub(last_call.expected_cost, parameters.COST_CONSTRAINT)),
             RoundoffBound)

\* a mixed policy whose expected cost is the constraint strictly between the
\* two costs, and was computed in floating-point arithmetic
C7_Witness ==
  /\ C7_Case
  /\ significand = SignificandBits
  /\ RLt(MinCost, parameters.COST_CONSTRAINT)
  /\ RLt(parameters.COST_CONSTRAINT, MaxCost)
  /\ Cardinality(Support(last_call.second)) = 2

(***************************************************************************)
(* SpecPlan: two planning calls, one after the other in one process, from  *)
(* the same state, with the same parameters and budget and a deterministic *)
(* environment.  Each call builds a new tree (CrossingStateEpisodeRunner:: *)
(* step); the search runs MaxIterations iterations at a root whose         *)
(* children are terminal, then returns the best action.                    *)
(***************************************************************************)
\* a deterministic environment: the reward, the cost and the child's returns
\* of every ego action
Environments == [ActionIdx -> Backpropagated]

\* what a planning call produces: the actions it chose in order, the root
\* statistics it ends with, and what returnBestAction gave
PlanningResult(order, best) ==
  [ order |-> order, reward |-> reward_statistic_, cost |-> cost_statistic_,
    best |-> best ]

InitPlan ==
  /\ significand = 0
  /\ recorded = NoRecord
  /\ runner = NoRunner
  /\ agent_policy = NoAgentPolicy
  /\ uct_statistic_ = NoStatistic
  /\ parameters \in ParameterChoices
  /\ \E env \in Environments :
       planning = [call |-> 1, order |-> <<>>, env |-> env,
                   parameters |-> parameters, first |-> NoCall,
                   second |-> NoCall]
  /\ reward_statistic_ = make_reward_statistic(parameters)
  /\ cost_statistic_ = make_cost_statistic(parameters)
  /\ unexpanded_actions_ = Iota(num_actions)
  /\ mean_step_costs_ = [a \in ActionIdx |-> RZero]
  /\ random_generator_ \in 0 .. (RngPeriod - 1)
  /\ is_root = TRUE
  /\ pc = "select"
  /\ current_iteration = 0
  /\ collected = 0
  /\ returned = {}
  /\ heuristic_updates = 0
  /\ last_call = NoCall
  /\ best_calls = <<>>

\* the rest of an iteration once the root statistic is updated to u: the
\* lambda adapter, a its result
IterationAdapted(c, u, a) ==
  /\ reward_statistic_' = u.reward
  /\ cost_statistic_' = u.cost
  /\ mean_step_costs_' = u.mean_step_costs
  /\ unexpanded_actions_' = c.unexpanded
  /\ collected' = c.action
  /\ returned' = IF c.greedy THEN returned ELSE returned \cup {c.action}
  /\ planning' = [planning EXCEPT !.order = Append(@, c.action)]
  /\ parameters' = a.parameters
  /\ random_generator_' = a.gen
  /\ last_call' = [op |-> "update_statistic_parameters", status |-> a.status,
                   greedy |-> a.greedy,
                   ready |-> policy_is_ready(c.unexpanded)]
  /\ pc' = IF a.status = "ok" THEN "select" ELSE "aborted"

\* the rest of an iteration once the root has chosen (c): the step of the
\* environment, backpropagation into the root, then the adapter
IterationBackpropagated(c, u) ==
  \E a \in {update_statistic_parameters(parameters, u.reward, u.cost,
                                        c.unexpanded, current_iteration,
                                        c.gen)} :
    IterationAdapted(c, u, a)

IterationChosen(c, b) ==
  \E u \in {update_statistic(reward_statistic_, cost_statistic_,
                             mean_step_costs_,
                             <<c.action, b.reward>>, <<c.action, b.cost>>,
                             b.child_reward, b.child_cost)} :
    IterationBackpropagated(c, u)

\* one iteration of the search
SearchIteration ==
  /\ pc = "select"
  /\ planning.call \in {1, 2}
  /\ current_iteration < MaxIterations
  /\ \E c \in {choose_next_action(reward_statistic_, cost_statistic_,
                                  unexpanded_actions_, parameters,
                                  random_generator_)} :
       /\ c.status = "ok"
       /\ IterationChosen(c, planning.env[c.action])
  /\ current_iteration' = current_iteration + 1
  /\ best_calls' = <<>>
  /\ UNCHANGED <<significand, recorded, runner, agent_policy, uct_statistic_,
                 is_root, heuristic_updates>>

\* returnBestAction when the budget of iterations is used up
ReturnBestAction ==
  /\ pc = "select"
  /\ planning.call \in {1, 2}
  /\ current_iteration = MaxIterations
  /\ \E g \in {get_best_action(reward_statistic_, cost_statistic_, parameters,
                               random_generator_)} :
       /\ \E e \in Ends(g.status) :
            /\ best_calls' = <<Observed(g, e)>>
            /\ last_call' = [op |-> "get_best_action", status |-> e]
            /\ planning' =
                 IF planning.call = 1
                 THEN [planning EXCEPT
                         !.first = PlanningResult(planning.order, Observed(g, e))]
                 ELSE [planning EXCEPT
                         !.second = PlanningResult(planning.order, Observed(g, e))]
       /\ random_generator_' =
            IF g.status = "ok" THEN RngAfter(random_generator_, g.draws)
            ELSE random_generator_
  /\ pc' = "returned"
  /\ UNCHANGED <<significand, recorded, runner, agent_policy, uct_statistic_,
                 parameters, reward_statistic_, cost_statistic_,
                 unexpanded_actions_, mean_step_costs_, is_root,
                 current_iteration, collected, returned, heuristic_updates>>

\* the second planning call: a new Mcts with the same parameters and a new
\* root statistic; random_generator_ is static and RandomGenerator() does not
\* seed it, so it continues from where the first call left it
NextPlanningCall ==
  /\ pc = "returned"
  /\ planning.call = 1
  /\ planning' = [planning EXCEPT !.call = 2, !.order = <<>>]
  /\ parameters' = planning.parameters
  /\ reward_statistic_' = make_reward_statistic(planning.parameters)
  /\ cost_statistic_' = make_cost_statistic(planning.parameters)
  /\ unexpanded_actions_' = Iota(num_actions)
  /\ mean_step_costs_' = [a \in ActionIdx |-> RZero]
  /\ pc' = "select"
  /\ current_iteration' = 0
  /\ collected' = 0
  /\ returned' = {}
  /\ last_call' = NoCall
  /\ best_calls' = <<>>
  /\ UNCHANGED <<significand, recorded, runner, agent_policy, uct_statistic_,
                 random_generator_, is_root, heuristic_updates>>

NextPlan ==
  \/ SearchIteration
  \/ ReturnBestAction
  \/ NextPlanningCall

SpecPlan == InitPlan /\ [][NextPlan]_vars

(***************************************************************************)
(* Properties of two planning calls (SpecPlan).                            *)
(***************************************************************************)
\* C10 as stated: with the same seed, the same budgets and a deterministic
\* environment, two planning calls started from the same state produce
\* identical results (same expansion order, same statistics, same best
\* action), also when they run one after the other in the same process and
\* share the static random generator.
C10_PlanningCallsAgree ==
  (planning.call = 2 /\ pc = "returned") => planning.second = planning.first

(***************************************************************************)
(* SpecGreedy: calculate_ucb_values, filter_feasible_actions and           *)
(* greedy_policy as functions of a fully expanded statistic, of lambda,    *)
(* ACTION_FILTER_FACTOR and COST_CONSTRAINT.                               *)
(***************************************************************************)
\* visit counts, reward action values and cost action values of an action
\* that has been backpropagated through at least once
GreedyCounts == {1, 2}
GreedyRewardValues == {RZero, FromInt(2)}
GreedyCostValues == {RZero, Rat(1, 2), ROne}

\* values of ACTION_FILTER_FACTOR and of COST_CONSTRAINT
ActionFilterFactors == {FromInt(-1), RZero, ROne}
GreedyCostConstraints == {RZero, Rat(1, 2)}

\* the visit counts of the actions added up
RECURSIVE CountsSum(_, _)
CountsSum(counts, S) ==
  IF S = {} THEN 0
  ELSE counts[FirstKey(S)] + CountsSum(counts, S \ {FirstKey(S)})

\* the statistic stat after every action a was backpropagated through
\* counts[a] times, with the action values values[a]
ExpandedStatistic(stat, counts, values) ==
  [stat EXCEPT
     !.ucb_statistics_ = [a \in ActionIdx |->
                            [action_count_ |-> counts[a],
                             action_value_ |-> values[a]]],
     !.total_node_visits_ = CountsSum(counts, ActionIdx)]

InitGreedy ==
  /\ significand = 0
  /\ recorded = NoRecord
  /\ runner = NoRunner
  /\ agent_policy = NoAgentPolicy
  /\ uct_statistic_ = NoStatistic
  /\ planning = NoPlanning
  /\ parameters \in {[p EXCEPT !.COST_CONSTRAINT = c,
                               !.ACTION_FILTER_FACTOR = f] :
                       p \in {q \in ParameterChoices : RLe(RZero, q.Lambda)},
                       c \in GreedyCostConstraints,
                       f \in ActionFilterFactors}
  /\ \E counts \in [ActionIdx -> GreedyCounts] :
       /\ reward_statistic_ \in
            {ExpandedStatistic(make_reward_statistic(parameters), counts, v) :
               v \in [ActionIdx -> GreedyRewardValues]}
       /\ cost_statistic_ \in
            {ExpandedStatistic(make_cost_statistic(parameters), counts, v) :
               v \in [ActionIdx -> GreedyCostValues]}
  /\ unexpanded_actions_ = <<>>
  /\ mean_step_costs_ = [a \in ActionIdx |-> RZero]
  /\ random_generator_ \in {0, RngPeriod - 1}
  /\ is_root = TRUE
  /\ pc = "greedy"
  /\ current_iteration = 0
  /\ collected = 0
  /\ returned = {}
  /\ heuristic_updates = 0
  /\ last_call = NoCall
  /\ best_calls = <<>>

\* what filter_feasible_actions is called with and what it returns
Filtered(kappa_local, ucb_values, feasible) ==
  [ op |-> "filter_feasible_actions",
    kappa_local |-> kappa_local,
    values |-> ucb_values.values,
    status |-> feasible.status,
    actions |-> feasible.actions ]

\* the first two statements of greedy_policy: calculate_ucb_values, then
\* filter_feasible_actions, with the kappa_local of choose_next_action
\* (kappa) or of get_policy and get_best_action (0.0)
FilterFeasibleActions ==
  /\ pc = "greedy"
  /\ \E kappa_local \in {RZero, parameters.KAPPA} :
       \E v \in {calculate_ucb_values(reward_statistic_, cost_statistic_,
                                      parameters.Lambda, kappa_local)} :
         last_call' = Filtered(kappa_local, v,
                               filter_feasible_actions(
                                 v.values, parameters.ACTION_FILTER_FACTOR,
                                 reward_statistic_))
  /\ pc' = "filtered"
  /\ UNCHANGED <<significand, recorded, runner, agent_policy, uct_statistic_,
                 planning, parameters, reward_statistic_,
                 cost_statistic_, unexpanded_actions_, mean_step_costs_,
                 random_generator_, is_root, current_iteration, collected,
                 returned, heuristic_updates, best_calls>>

\* what a caller of greedy_policy observes
GreedyObserved(filtered, g) ==
  IF g.status = "ok"
  THEN [ op |-> "greedy_policy", kappa_local |-> filtered.kappa_local,
         values |-> filtered.values, actions |-> filtered.actions,
         status |-> "ok", first |-> g.first, second |-> g.second ]
  ELSE [ op |-> "greedy_policy", kappa_local |-> filtered.kappa_local,
         values |-> filtered.values, actions |-> filtered.actions,
         status |-> g.status ]

\* greedy_policy as a whole, on the same statistic and kappa_local
GreedyPolicy ==
  /\ pc = "filtered"
  /\ \E g \in {greedy_policy(reward_statistic_, cost_statistic_,
                             parameters.Lambda, parameters.COST_CONSTRAINT,
                             last_call.kappa_local,
                             parameters.ACTION_FILTER_FACTOR,
                             random_generator_)} :
       /\ last_call' = GreedyObserved(last_call, g)
       /\ random_generator_' =
            IF g.status = "ok" THEN RngAfter(random_generator_, g.draws)
            ELSE random_generator_
  /\ pc' = "greedy_done"
  /\ UNCHANGED <<significand, recorded, runner, agent_policy, uct_statistic_,
                 planning, parameters, reward_statistic_,
                 cost_statistic_, unexpanded_actions_, mean_step_costs_,
                 is_root, current_iteration, collected, returned,
                 heuristic_updates, best_calls>>

NextGreedy ==
  \/ FilterFeasibleActions
  \/ GreedyPolicy

SpecGreedy == InitGreedy /\ [][NextGreedy]_vars

(***************************************************************************)
(* Properties of the feasibility filter and of greedy_policy (SpecGreedy). *)
(***************************************************************************)
\* filter_feasible_actions has returned
FilterReturned == pc \in {"filtered", "greedy_done"}

\* u[a], the UCB value the filter was given for action a
UcbOf(a) == last_call.values[a + 1]

\* a*, the action of the greatest UCB value (the first of them)
ArgMax ==
  CHOOSE a \in ActionIdx :
    /\ \A b \in ActionIdx : RLe(UcbOf(b), UcbOf(a))
    /\ \A b \in ActionIdx : b < a => RLt(UcbOf(b), UcbOf(a))

\* s(a) = sqrt(ln n_a / n_a) for the visit count n_a >= 1 of action a
SqrtLogCount(a) ==
  SqrtLogOver(reward_statistic_.ucb_statistics_[a].action_count_,
              reward_statistic_.ucb_statistics_[a].action_count_)

\* |u* - u[a]| <= filter_factor * (s(a) + s*)
NearOptimal(a) ==
  RLe(RAbs(QSub(UcbOf(ArgMax), UcbOf(a))),
      QMul(parameters.ACTION_FILTER_FACTOR,
           QAdd(SqrtLogCount(a), SqrtLogCount(ArgMax))))

\* C11: for every vector of UCB values over the expanded actions, all visit
\* counts >= 1 and every filter factor >= 0 (0 included),
\* filter_feasible_actions returns a non-empty set that contains the argmax
\* action and exactly the actions a with
\* |u* - u[a]| <= filter_factor * (s(a) + s*).
C11_FilterKeepsNearOptimal ==
  (FilterReturned /\ RLe(RZero, parameters.ACTION_FILTER_FACTOR)) =>
    /\ last_call.actions # <<>>
    /\ ArgMax \in Elems(last_call.actions)
    /\ Elems(last_call.actions) = {a \in ActionIdx : NearOptimal(a)}

\* the filter kept the argmax and one more action and dropped the third
C11_Witness ==
  /\ pc = "filtered"
  /\ RLt(RZero, parameters.ACTION_FILTER_FACTOR)
  /\ Cardinality(Elems(last_call.actions)) = 2
  /\ ArgMax \in Elems(last_call.actions)

\* C12: if the feasibility filter returns an empty set (for instance with a
\* negative ACTION_FILTER_FACTOR), greedy_policy does not fail: it returns
\* the argmax action of the UCB values, with probability 1.
C12_EmptyFilterFallsBack ==
  (pc = "greedy_done" /\ last_call.actions = <<>>) =>
    /\ last_call.status = "ok"
    /\ last_call.first = ArgMax
    /\ last_call.second[ArgMax] = ROne

\* get_policy has returned for COST_CONSTRAINT = 0, a filter factor >= 0 and
\* a strictly positive cost action value on every arm
ZeroBudgetPolicy ==
  /\ pc = "greedy_done"
  /\ last_call.kappa_local = RZero
  /\ parameters.COST_CONSTRAINT = RZero
  /\ RLe(RZero, parameters.ACTION_FILTER_FACTOR)
  /\ \A a \in ActionIdx : RLt(RZero, CostOf(a))

\* the policy gives probability 1 to an arm of least cost among the arms S
\* and probability 0 to every other arm
AllMassOnMinCost(policy, S) ==
  \E a \in S :
    /\ \A b \in S : RLe(CostOf(a), CostOf(b))
    /\ policy[a] = ROne
    /\ \A b \in DOMAIN policy : b # a => policy[b] = RZero

\* C14 (as stated): with C_max = 0 and a strictly positive cost action value
\* on every arm, get_policy of a fully expanded statistic assigns
\* probability 1 to the arm whose cost action value is the minimum over all
\* arms, whether or not they pass the feasibility filter.
C14_MinCostOverAllArms ==
  ZeroBudgetPolicy =>
    /\ last_call.status = "ok"
    /\ AllMassOnMinCost(last_call.second, ActionIdx)

\* C14 (amended): under the same conditions get_policy assigns probability
\* 1 to an arm whose cost action value is the minimum over the arms that
\* pass the feasibility filter.
C14_MinCostOverFeasibleArms ==
  ZeroBudgetPolicy =>
    /\ last_call.status = "ok"
    /\ AllMassOnMinCost(last_call.second, Elems(last_call.actions))

\* the arm of least cost did not pass the filter and the policy is on
\* another arm
C14_Witness ==
  /\ ZeroBudgetPolicy
  /\ last_call.status = "ok"
  /\ \E a \in ActionIdx \ Elems(last_call.actions) :
       \A b \in Elems(last_call.actions) : RLt(CostOf(a), CostOf(b))
  /\ AllMassOnMinCost(last_call.second, Elems(last_call.actions))

(***************************************************************************)
(* SpecConstruct: the constructor of CostConstrainedStatistic (and of the  *)
(* two UctStatistic it owns) as a step, for proper and improper            *)
(* configurations, followed by the expansion phase of a node.              *)
(***************************************************************************)
\* <<lower bound, upper bound>> for the reward and for the cost: proper,
\* inverted and equal
RewardBounds == {<<RZero, FromInt(2)>>, <<FromInt(2), RZero>>, <<ROne, ROne>>}
CostBounds == {<<RZero, ROne>>, <<ROne, RZero>>, <<ROne, ROne>>}

\* the numbers of actions a statistic is constructed for
NumActionsChoices == {0, num_actions}

\* CostConstrainedStatistic::CostConstrainedStatistic for n actions and the
\* parameters p: the members in the order of the initializer list, then the
\* body (iota, mean_step_costs_[action] = 0.0f); no statement of it fails
CostConstrainedStatistic(n, p) ==
  [ status |-> "ok",
    reward |-> UctStatistic(n, p.REWARD_LOWER_BOUND, p.REWARD_UPPER_BOUND,
                            p.DISCOUNT_FACTOR),
    cost |-> UctStatistic(n, p.COST_LOWER_BOUND, p.COST_UPPER_BOUND, ROne),
    unexpanded |-> Iota(n),
    mean_step_costs |-> [a \in 0 .. (n - 1) |-> RZero] ]

InitConstruct ==
  /\ significand = 0
  /\ recorded = NoRecord
  /\ runner = NoRunner
  /\ agent_policy = NoAgentPolicy
  /\ uct_statistic_ = NoStatistic
  /\ planning = NoPlanning
  /\ parameters \in {[p EXCEPT !.REWARD_LOWER_BOUND = r[1],
                               !.REWARD_UPPER_BOUND = r[2],
                               !.COST_LOWER_BOUND = c[1],
                               !.COST_UPPER_BOUND = c[2]] :
                       p \in {q \in ParameterChoices : q.Lambda = RZero},
                       r \in RewardBounds, c \in CostBounds}
  /\ reward_statistic_ = NoStatistic
  /\ cost_statistic_ = NoStatistic
  /\ unexpanded_actions_ = <<>>
  /\ mean_step_costs_ = <<>>
  /\ random_generator_ \in 0 .. (RngPeriod - 1)
  /\ is_root = FALSE
  /\ pc = "construct"
  /\ current_iteration = 0
  /\ collected = 0
  /\ returned = {}
  /\ heuristic_updates = 0
  /\ last_call = NoCall
  /\ best_calls = <<>>

\* the search creates the node: the constructor runs
Construct ==
  /\ pc = "construct"
  /\ \E n \in NumActionsChoices :
       \E s \in {CostConstrainedStatistic(n, parameters)} :
         /\ reward_statistic_' = s.reward
         /\ cost_statistic_' = s.cost
         /\ unexpanded_actions_' = s.unexpanded
         /\ mean_step_costs_' = s.mean_step_costs
         /\ last_call' = [op |-> "CostConstrainedStatistic",
                          status |-> s.status, num_actions |-> n]
  /\ pc' = "created"
  /\ UNCHANGED <<significand, recorded, runner, agent_policy, uct_statistic_,
                 planning, parameters, random_generator_,
                 is_root, current_iteration, collected, returned,
                 heuristic_updates, best_calls>>

\* selection while no action value is normalised: an action is left to
\* expand, or the statistic has no action at all
ChooseWhileExpanding ==
  /\ pc = "select"
  /\ \/ unexpanded_actions_ # <<>>
     \/ DOMAIN reward_statistic_.ucb_statistics_ = {}
  /\ ChooseNextAction

NextConstruct ==
  \/ Construct
  \/ UpdateFromHeuristic
  \/ ChooseWhileExpanding
  \/ UpdateStatistic

SpecConstruct == InitConstruct /\ [][NextConstruct]_vars

\* the bounds of the reward and of the cost are proper and there is an action
ValidConfiguration ==
  /\ RLt(parameters.REWARD_LOWER_BOUND, parameters.REWARD_UPPER_BOUND)
  /\ RLt(parameters.COST_LOWER_BOUND, parameters.COST_UPPER_BOUND)
  /\ DOMAIN mean_step_costs_ # {}

\* C13: constructing a UctStatistic or a CostConstrainedStatistic with
\* UPPER_BOUND <= LOWER_BOUND (reward or cost) or with num_actions = 0 fails
\* at construction with an error, so that no statistic in such a
\* configuration is ever used for selection or backpropagation.
C13_ImproperConfigurationFails ==
  /\ (last_call.op = "CostConstrainedStatistic" /\ ~ValidConfiguration) =>
       last_call.status # "ok"
  /\ last_call.op \in {"choose_next_action", "update_statistic"} =>
       ValidConfiguration

(***************************************************************************)
(* Properties of the two UctStatistic of a node during a search (Spec).    *)
(***************************************************************************)
\* the actions with a UcbPair in the statistic
Expanded(stat) == DOMAIN stat.ucb_statistics_

\* get_normalized_ucb_value(a) of every expanded action is in [0, 1]
NormalizedInUnitInterval(stat) ==
  \A a \in Expanded(stat) :
    /\ RLe(RZero, get_normalized_ucb_value(stat, a))
    /\ RLe(get_normalized_ucb_value(stat, a), ROne)

\* latest_return_ of the statistic is within its bounds
ReturnWithinBounds(stat) ==
  /\ RLe(stat.lower_bound, stat.latest_return_)
  /\ RLe(stat.latest_return_, stat.upper_bound)

\* C16: when every backpropagated return immediate + discount * child_return
\* lies within [LOWER_BOUND, UPPER_BOUND] of its statistic, then after any
\* sequence of updates get_normalized_ucb_value(a) is in [0, 1] for every
\* expanded action a of the reward and of the cost statistic.
C16_NormalizedValuesInUnitInterval ==
  /\ ReturnWithinBounds(reward_statistic_)
  /\ ReturnWithinBounds(cost_statistic_)
  /\ NormalizedInUnitInterval(reward_statistic_)
  /\ NormalizedInUnitInterval(cost_statistic_)

\* after four updates an action value lies strictly inside the bounds and
\* another one on the upper bound
C16_Witness ==
  /\ reward_statistic_.total_node_visits_ >= MaxIterations
  /\ \E a \in Expanded(reward_statistic_) :
       /\ reward_statistic_.ucb_statistics_[a].action_count_ >= 2
       /\ RLt(RZero, get_normalized_ucb_value(reward_statistic_, a))
       /\ RLt(get_normalized_ucb_value(reward_statistic_, a), ROne)
  /\ \E a \in Expanded(cost_statistic_) :
       get_normalized_ucb_value(cost_statistic_, a) = ROne

\* the visit count of action a in the statistic
ActionCount(stat, a) == stat.ucb_statistics_[a].action_count_

\* C17: after any sequence of update_statistic calls in which the same
\* action is the key of collected_reward_ and of collected_cost_, the reward
\* and the cost statistic of a CostConstrainedStatistic have the same set of
\* expanded actions and the same visit count for each of them, so the size
\* assertion of calculate_ucb_values holds.
C17_RewardAndCostShareKeysAndCounts ==
  /\ Expanded(reward_statistic_) = Expanded(cost_statistic_)
  /\ \A a \in Expanded(reward_statistic_) :
       ActionCount(reward_statistic_, a) = ActionCount(cost_statistic_, a)
  /\ Cardinality(Expanded(reward_statistic_))
       = Cardinality(Expanded(cost_statistic_))

\* two actions were backpropagated through, one of them twice
C17_Witness ==
  /\ last_call.op = "update_statistic"
  /\ \E a, b \in Expanded(reward_statistic_) :
       /\ a # b
       /\ ActionCount(cost_statistic_, a) = 2
       /\ ActionCount(cost_statistic_, b) = 1

(***************************************************************************)
(* UctStatistic as the statistic of a node: choose_next_action with        *)
(* progressive widening and the UCB formula.                               *)
(***************************************************************************)
\* std::numeric_limits<double>::min(), the least positive normal double
\* (about 2.2e-308): a positive number below every positive score
DblMin == Rat(1, 1000000)

\* sqrt(2), to four decimal places like SqrtLogTable
Sqrt2 == Rat(14142, 10000)

\* num_expanded_actions() <= progressive_widening_k *
\* std::pow(total_node_visits_, progressive_widening_alpha), for the
\* exponents 0, 1/2 and 1 and progressive_widening_k >= 0; pow(0, 0) = 1
WithinWideningTerm(expanded, k, total_node_visits, alpha) ==
  IF alpha = RZero THEN RLe(FromInt(expanded), k)
  ELSE IF alpha = ROne
  THEN RLe(FromInt(expanded), RMul(k, FromInt(total_node_visits)))
  ELSE RLe(FromInt(expanded * expanded),
           RMul(RMul(k, k), FromInt(total_node_visits)))

\* UctStatistic::num_expanded_actions
num_expanded_actions(stat) == Cardinality(DOMAIN stat.ucb_statistics_)

\* UctStatistic::require_progressive_widening_total; num_actions_ is the
\* number of actions the statistic was constructed for
require_progressive_widening_total(stat, p, num_actions_) ==
  /\ WithinWideningTerm(num_expanded_actions(stat), p.PROGRESSIVE_WIDENING_K,
                        stat.total_node_visits_, p.PROGRESSIVE_WIDENING_ALPHA)
  /\ num_expanded_actions(stat) < num_actions_

\* whether values[action] of calculate_ucb_and_max_action is NaN: log(0) is
\* -inf and its square root NaN; 0 / 0 is NaN; 0 * inf is NaN
UcbValueIsNaN(exploration_constant, N, n) ==
  \/ N = 0
  \/ n = 0 /\ (N = 1 \/ exploration_constant = RZero)

\* 2 * exploration_constant * sqrt((2 * log(N)) / n), +-inf as +-DBL_MAX
UctExplorationTerm(exploration_constant, N, n) ==
  IF n = 0
  THEN (IF RLt(RZero, exploration_constant) THEN DblMax ELSE RNeg(DblMax))
  ELSE RMul(RMul(FromInt(2), exploration_constant),
            RMul(Sqrt2, SqrtLogOver(N, n)))

\* values[action] of calculate_ucb_and_max_action
UctUcbValue(stat, exploration_constant, action) ==
  RAdd(get_normalized_ucb_value(stat, action),
       UctExplorationTerm(exploration_constant, stat.total_node_visits_,
                          stat.ucb_statistics_[action].action_count_))

\* values[ucb_pair.first] > max_value (false for NaN)
ExceedsMax(stat, exploration_constant, action, max_value) ==
  /\ ~UcbValueIsNaN(exploration_constant, stat.total_node_visits_,
                    stat.ucb_statistics_[action].action_count_)
  /\ RLt(max_value, UctUcbValue(stat, exploration_constant, action))

\* the loop of calculate_ucb_and_max_action over the entries with keys S, in
\* the order of the map
RECURSIVE UcbScan(_, _, _, _, _)
UcbScan(stat, exploration_constant, S, maximizing_action, max_value) ==
  IF S = {} THEN maximizing_action
  ELSE IF ExceedsMax(stat, exploration_constant, FirstKey(S), max_value)
  THEN UcbScan(stat, exploration_constant, S \ {FirstKey(S)}, FirstKey(S),
               UctUcbValue(stat, exploration_constant, FirstKey(S)))
  ELSE UcbScan(stat, exploration_constant, S \ {FirstKey(S)},
               maximizing_action, max_value)

\* UctStatistic::calculate_ucb_and_max_action: maximizing_action starts as
\* 0 and max_value as std::numeric_limits<double>::min()
calculate_ucb_and_max_action(stat, exploration_constant) ==
  UcbScan(stat, exploration_constant, DOMAIN stat.ucb_statistics_, 0, DblMin)

\* the expansion branch of UctStatistic::choose_next_action
UctExpand(stat, array_idx, gen) ==
  [ action |-> stat.unexpanded_actions_[array_idx + 1],
    stat |-> [stat EXCEPT
                !.unexpanded_actions_ = Erase(@, array_idx),
                !.ucb_statistics_ =
                   MapPut(@, stat.unexpanded_actions_[array_idx + 1], UcbPair)],
    gen |-> RngAdvance(gen),
    expanded |-> TRUE ]

\* the branch of UctStatistic::choose_next_action that uses the UCB formula
UctSelect(stat, p, gen) ==
  [ action |-> calculate_ucb_and_max_action(stat, p.EXPLORATION_CONSTANT),
    stat |-> stat, gen |-> gen, expanded |-> FALSE ]

\* UctStatistic::choose_next_action
uct_choose_next_action(stat, p, num_actions_, gen) ==
  IF require_progressive_widening_total(stat, p, num_actions_)
  THEN UctExpand(stat, UniformInt(gen, Len(stat.unexpanded_actions_) - 1), gen)
  ELSE UctSelect(stat, p, gen)

(***************************************************************************)
(* SpecUct: a node whose statistic is a UctStatistic, through the          *)
(* iterations of a search: heuristic, selection, backpropagation.          *)
(***************************************************************************)
\* values of EXPLORATION_CONSTANT (0.7 in CostConstrainedTest::SetUp),
\* PROGRESSIVE_WIDENING_K and PROGRESSIVE_WIDENING_ALPHA
ExplorationConstants == {RZero, Rat(7, 10)}
ProgressiveWideningKs == {Rat(1, 2), ROne, FromInt(2)}
ProgressiveWideningAlphas == {RZero, Rat(1, 2), ROne}

\* the MctsParameters of a search with UctStatistic
UctParameterChoices ==
  { [ DISCOUNT_FACTOR |-> Rat(9, 10),
      LOWER_BOUND |-> RZero,
      UPPER_BOUND |-> FromInt(2),
      EXPLORATION_CONSTANT |-> c,
      PROGRESSIVE_WIDENING_K |-> k,
      PROGRESSIVE_WIDENING_ALPHA |-> alpha,
      COST_LOWER_BOUND |-> RZero,
      COST_UPPER_BOUND |-> ROne,
      REWARD_LOWER_BOUND |-> RZero,
      REWARD_UPPER_BOUND |-> FromInt(2) ] :
    c \in ExplorationConstants, k \in ProgressiveWideningKs,
    alpha \in ProgressiveWideningAlphas }

\* UctStatistic::UctStatistic at a node the search has just created; the
\* two statistics of a CostConstrainedStatistic are constructed next to it
\* and not used
InitUct ==
  /\ significand = 0
  /\ recorded = NoRecord
  /\ runner = NoRunner
  /\ agent_policy = NoAgentPolicy
  /\ planning = NoPlanning
  /\ parameters \in UctParameterChoices
  /\ uct_statistic_ = UctStatistic(num_actions, parameters.LOWER_BOUND,
                                   parameters.UPPER_BOUND,
                                   parameters.DISCOUNT_FACTOR)
  /\ reward_statistic_ = make_reward_statistic(parameters)
  /\ cost_statistic_ = make_cost_statistic(parameters)
  /\ unexpanded_actions_ = Iota(num_actions)
  /\ mean_step_costs_ = [a \in ActionIdx |-> RZero]
  /\ random_generator_ \in 0 .. (RngPeriod - 1)
  /\ is_root \in BOOLEAN
  /\ pc = IF is_root THEN "uct_select" ELSE "uct_created"
  /\ current_iteration = 0
  /\ collected = 0
  /\ returned = {}
  /\ heuristic_updates = 0
  /\ last_call = NoCall
  /\ best_calls = <<>>

\* value_ of the heuristic's UctStatistic
UctHeuristics == {RZero, ROne}

\* the immediate reward of the edge and the latest return of the child
UctBackpropagated == {<<b.reward, b.child_reward>> : b \in Backpropagated}

\* UctStatistic::update_from_heuristic on a leaf that was just created
UctUpdateFromHeuristic ==
  /\ pc = "uct_created"
  /\ \E h \in UctHeuristics :
       uct_statistic_' =
         update_from_heuristic_from_backpropagated(uct_statistic_, h)
  /\ pc' = "uct_select"
  /\ heuristic_updates' = heuristic_updates + 1
  /\ last_call' = [op |-> "update_from_heuristic"]
  /\ UNCHANGED <<significand, recorded, runner, agent_policy, planning,
                 parameters, reward_statistic_,
                 cost_statistic_, unexpanded_actions_, mean_step_costs_,
                 random_generator_, is_root, current_iteration, collected,
                 returned, best_calls>>

\* selection: UctStatistic::choose_next_action; before is the statistic the
\* call started on
UctChooseNextAction ==
  /\ pc = "uct_select"
  /\ current_iteration < MaxIterations
  /\ \E c \in {uct_choose_next_action(uct_statistic_, parameters, num_actions,
                                      random_generator_)} :
       /\ uct_statistic_' = c.stat
       /\ random_generator_' = c.gen
       /\ collected' = c.action
       /\ last_call' = [op |-> "choose_next_action", action |-> c.action,
                        expanded |-> c.expanded, before |-> uct_statistic_]
  /\ pc' = "uct_backprop"
  /\ UNCHANGED <<significand, recorded, runner, agent_policy, planning,
                 parameters, reward_statistic_,
                 cost_statistic_, unexpanded_actions_, mean_step_costs_,
                 is_root, current_iteration, returned, heuristic_updates,
                 best_calls>>

\* backpropagation: UctStatistic::update_statistic with the reward collected
\* on the edge of the chosen action
UctUpdateStatistic ==
  /\ pc = "uct_backprop"
  /\ \E b \in UctBackpropagated :
       uct_statistic_' =
         update_statistics_from_backpropagated(uct_statistic_,
                                               <<collected, b[1]>>, b[2])
  /\ pc' = "uct_select"
  /\ current_iteration' = current_iteration + 1
  /\ last_call' = [op |-> "update_statistic"]
  /\ UNCHANGED <<significand, recorded, runner, agent_policy, planning,
                 parameters, reward_statistic_,
                 cost_statistic_, unexpanded_actions_, mean_step_costs_,
                 random_generator_, is_root, collected, returned,
                 heuristic_updates, best_calls>>

NextUct ==
  \/ UctUpdateFromHeuristic
  \/ UctChooseNextAction
  \/ UctUpdateStatistic

SpecUct == InitUct /\ [][NextUct]_vars

(***************************************************************************)
(* Properties of UctStatistic (SpecUct).                                   *)
(***************************************************************************)
\* no action with a UcbPair is listed in unexpanded_actions_ of the statistic
UnexpandedDisjointFromKeys(stat) ==
  Elems(stat.unexpanded_actions_) \cap DOMAIN stat.ucb_statistics_ = {}

\* C18: for every Stat (a stand-alone UctStatistic, and the reward and the
\* cost UctStatistic owned by a CostConstrainedStatistic), in every
\* reachable state the unexpanded actions are disjoint from the keys of the
\* per-action UCB statistics.
C18_UnexpandedDisjointFromKeys ==
  /\ UnexpandedDisjointFromKeys(uct_statistic_)
  /\ UnexpandedDisjointFromKeys(reward_statistic_)
  /\ UnexpandedDisjointFromKeys(cost_statistic_)

\* UctStatistic::choose_next_action has just returned
UctChose == pc = "uct_backprop" /\ last_call.op = "choose_next_action"

\* the actions that had a UcbPair when the call started
ExpandedBefore == DOMAIN last_call.before.ucb_statistics_

\* (number of expanded actions <= PROGRESSIVE_WIDENING_K *
\* total_visits^PROGRESSIVE_WIDENING_ALPHA) and (number of expanded actions
\* < num_actions) when the call started
WideningAllowed ==
  /\ Cardinality(ExpandedBefore) < num_actions
  /\ IF parameters.PROGRESSIVE_WIDENING_ALPHA = Rat(1, 2)
     THEN RLe(FromInt(Cardinality(ExpandedBefore) * Cardinality(ExpandedBefore)),
              QMul(QMul(parameters.PROGRESSIVE_WIDENING_K,
                        parameters.PROGRESSIVE_WIDENING_K),
                   FromInt(last_call.before.total_node_visits_)))
     ELSE RLe(FromInt(Cardinality(ExpandedBefore)),
              QMul(parameters.PROGRESSIVE_WIDENING_K,
                   IF parameters.PROGRESSIVE_WIDENING_ALPHA = RZero THEN ROne
                   ELSE FromInt(last_call.before.total_node_visits_)))

\* the UCB score of action a when the call started
ScoreBefore(a) ==
  UctUcbValue(last_call.before, parameters.EXPLORATION_CONSTANT, a)

\* C19: UctStatistic::choose_next_action expands a new action exactly when
\* (expanded <= PROGRESSIVE_WIDENING_K * total_visits^ALPHA) and (expanded <
\* num_actions); otherwise it returns an already expanded action of greatest
\* UCB score, the lowest index among ties, also when every score is 0 and
\* action 0 has not been expanded.
C19_ExpandsOrSelectsExpandedMaximum ==
  UctChose =>
    /\ last_call.expanded <=> WideningAllowed
    /\ last_call.expanded =>
         /\ last_call.action \notin ExpandedBefore
         /\ last_call.action \in DOMAIN uct_statistic_.ucb_statistics_
    /\ ~last_call.expanded =>
         /\ last_call.action \in ExpandedBefore
         /\ \A b \in ExpandedBefore :
              /\ RLe(ScoreBefore(b), ScoreBefore(last_call.action))
              /\ ScoreBefore(b) = ScoreBefore(last_call.action) =>
                   last_call.action <= b

(***************************************************************************)
(* SpecHeuristic: CostConstrainedStatistic::update_from_heuristic as a     *)
(* function of the statistic it is called on, fresh or with expanded       *)
(* actions, and of the heuristic's values.                                 *)
(***************************************************************************)
\* cost action values of the statistic the heuristic update is applied to
HeuristicCostValues == {RZero, ROne}

\* the statistics with every action expanded
HeuristicExpandedStates ==
  { [ reward |-> ExpandedStatistic(make_reward_statistic(p), counts, r),
      cost |-> ExpandedStatistic(make_cost_statistic(p), counts, c),
      unexpanded |-> <<>>,
      mean_step_costs |-> c ] :
    p \in {q \in ParameterChoices : q.Lambda = RZero},
    counts \in [ActionIdx -> GreedyCounts],
    r \in [ActionIdx -> GreedyRewardValues],
    c \in [ActionIdx -> HeuristicCostValues] }

\* the statistic right after construction
HeuristicFreshStates ==
  { [ reward |-> make_reward_statistic(p),
      cost |-> make_cost_statistic(p),
      unexpanded |-> Iota(num_actions),
      mean_step_costs |-> [a \in ActionIdx |-> RZero] ] :
    p \in {q \in ParameterChoices : q.Lambda = RZero} }

InitHeuristic ==
  /\ significand = 0
  /\ recorded = NoRecord
  /\ runner = NoRunner
  /\ agent_policy = NoAgentPolicy
  /\ uct_statistic_ = NoStatistic
  /\ planning = NoPlanning
  /\ parameters \in {q \in ParameterChoices : q.Lambda = RZero}
  /\ \E s \in HeuristicExpandedStates \cup HeuristicFreshStates :
       /\ reward_statistic_ = s.reward
       /\ cost_statistic_ = s.cost
       /\ unexpanded_actions_ = s.unexpanded
       /\ mean_step_costs_ = s.mean_step_costs
  /\ random_generator_ = 0
  /\ is_root = FALSE
  /\ pc = "heuristic"
  /\ current_iteration = 0
  /\ collected = 0
  /\ returned = {}
  /\ heuristic_updates = 0
  /\ last_call = NoCall
  /\ best_calls = <<>>

\* what update_from_heuristic was called with and on
HeuristicCall(h) ==
  [ op |-> "update_from_heuristic",
    heuristic_reward_value |-> h[1],
    heuristic_cost_value |-> h[2],
    reward |-> reward_statistic_,
    cost |-> cost_statistic_,
    unexpanded |-> unexpanded_actions_,
    mean_step_costs |-> mean_step_costs_ ]

\* one call of CostConstrainedStatistic::update_from_heuristic
HeuristicUpdate ==
  /\ pc = "heuristic"
  /\ \E h \in Heuristics :
       /\ \E u \in {update_from_heuristic(reward_statistic_, cost_statistic_,
                                          h[1], h[2])} :
            /\ reward_statistic_' = u.reward
            /\ cost_statistic_' = u.cost
       /\ last_call' = HeuristicCall(h)
  /\ pc' = "heuristic_done"
  /\ heuristic_updates' = heuristic_updates + 1
  /\ UNCHANGED <<significand, recorded, runner, agent_policy, uct_statistic_,
                 planning, parameters,
                 unexpanded_actions_, mean_step_costs_, random_generator_,
                 is_root, current_iteration, collected, returned, best_calls>>

NextHeuristic ==
  \/ HeuristicUpdate

SpecHeuristic == InitHeuristic /\ [][NextHeuristic]_vars

\* value_ and latest_return_ of the statistic are x
ValueAndReturnAre(stat, x) == stat.value_ = x /\ stat.latest_return_ = x

\* the per-action counts and values (hence the expanded set) and the
\* unexpanded vector of the statistic are those of before
ActionsUntouched(stat, before) ==
  /\ stat.ucb_statistics_ = before.ucb_statistics_
  /\ stat.unexpanded_actions_ = before.unexpanded_actions_

\* C20: CostConstrainedStatistic::update_from_heuristic sets value and
\* latest_return of the reward and of the cost statistic to the heuristic's
\* reward and cost values and leaves unchanged every per-action visit count
\* and value, the set of expanded actions, the unexpanded set and
\* mean_step_costs.
C20_HeuristicUpdateFrame ==
  pc = "heuristic_done" =>
    /\ ValueAndReturnAre(reward_statistic_, last_call.heuristic_reward_value)
    /\ ValueAndReturnAre(cost_statistic_, last_call.heuristic_cost_value)
    /\ ActionsUntouched(reward_statistic_, last_call.reward)
    /\ ActionsUntouched(cost_statistic_, last_call.cost)
    /\ unexpanded_actions_ = last_call.unexpanded
    /\ mean_step_costs_ = last_call.mean_step_costs

\* the update was applied to a statistic with expanded actions whose value
\* differed from the heuristic's
C20_Witness ==
  /\ pc = "heuristic_done"
  /\ DOMAIN reward_statistic_.ucb_statistics_ = ActionIdx
  /\ last_call.reward.value_ # last_call.heuristic_reward_value
  /\ \E a \in ActionIdx : reward_statistic_.ucb_statistics_[a].action_count_ = 2
  /\ \E a \in ActionIdx : mean_step_costs_[a] = ROne


(***************************************************************************)
(* SpecMean: a node of the search, as in Spec but below the root, together *)
(* with the record of what the search backpropagated to each action: how   *)
(* many returns, their sum, the sum of the immediate values and the        *)
(* largest magnitudes. The statistics are computed in arithmetic without   *)
(* rounding error or in floating-point arithmetic; the sums of the record  *)
(* are always exact.                                                       *)
(***************************************************************************)
\* nothing was backpropagated to an action
NoReturns ==
  [n |-> 0, returns |-> RZero, immediate |-> RZero,
   largest |-> RZero, largest_immediate |-> RZero]

\* the return of line 111: collected_reward_.second + k_discount_factor *
\* backpropagated
LatestReturn(immediate, child, discount) ==
  RAdd(immediate, RMul(discount, child))

\* the record after a return of action a
RecordReturn(rec, a, immediate, child, discount) ==
  [rec EXCEPT ![a] =
     [n |-> @.n + 1,
      returns |-> QAdd(@.returns, LatestReturn(immediate, child, discount)),
      immediate |-> QAdd(@.immediate, immediate),
      largest |-> RMax(@.largest, RAbs(LatestReturn(immediate, child, discount))),
      largest_immediate |-> RMax(@.largest_immediate, RAbs(immediate))]]

\* DISCOUNT_FACTOR 0.9, a tenth, as the floating-point type holds them
MeanDiscountFactor == Round(Rat(9, 10))
MeanTenth == Round(Rat(1, 10))

\* the parameters of CostConstrainedTest::SetUp with LAMBDA = 0
MeanParameters ==
  [ DISCOUNT_FACTOR |-> MeanDiscountFactor,
    Lambda |-> RZero,
    KAPPA |-> FromInt(1),
    ACTION_FILTER_FACTOR |-> FromInt(1),
    COST_CONSTRAINT |-> Rat(1, 2),
    COST_LOWER_BOUND |-> RZero,
    COST_UPPER_BOUND |-> ROne,
    REWARD_LOWER_BOUND |-> RZero,
    REWARD_UPPER_BOUND |-> FromInt(2),
    GRADIENT_UPDATE_STEP |-> MeanTenth,
    TAU_GRADIENT_CLIP |-> ROne ]

InitMean ==
  /\ significand \in {0, SignificandBits}
  /\ recorded = [reward |-> [a \in ActionIdx |-> NoReturns],
                 cost |-> [a \in ActionIdx |-> NoReturns]]
  /\ runner = NoRunner
  /\ agent_policy = NoAgentPolicy
  /\ uct_statistic_ = NoStatistic
  /\ planning = NoPlanning
  /\ parameters = MeanParameters
  /\ reward_statistic_ = make_reward_statistic(parameters)
  /\ cost_statistic_ = make_cost_statistic(parameters)
  /\ unexpanded_actions_ = Iota(num_actions)
  /\ mean_step_costs_ = [a \in ActionIdx |-> RZero]
  /\ random_generator_ \in 0 .. (RngPeriod - 1)
  /\ is_root = FALSE
  /\ pc = "created"
  /\ current_iteration = 0
  /\ collected = 0
  /\ returned = {}
  /\ heuristic_updates = 0
  /\ last_call = NoCall
  /\ best_calls = <<>>

\* what is backpropagated to the node: immediate ego reward and cost of the
\* edge, the latest returns of the child; returns within the bounds
MeanBackpropagated ==
  { [reward |-> RZero, cost |-> RZero, child_reward |-> RZero, child_cost |-> RZero],
    [reward |-> FromInt(2), cost |-> MeanTenth, child_reward |-> RZero, child_cost |-> RZero],
    [reward |-> RZero, cost |-> ROne, child_reward |-> RZero, child_cost |-> RZero],
    [reward |-> RZero, cost |-> RZero, child_reward |-> ROne, child_cost |-> ROne] }

\* the record after the backpropagation of b to the collected action: the
\* reward statistic discounts with DISCOUNT_FACTOR, the cost statistic with 1.0
RecordBackpropagated(b) ==
  [reward |-> RecordReturn(recorded.reward, collected, b.reward,
                           b.child_reward, parameters.DISCOUNT_FACTOR),
   cost |-> RecordReturn(recorded.cost, collected, b.cost, b.child_cost, ROne)]

\* backpropagation, update_statistic, with the record kept
MeanUpdateStatistic ==
  /\ pc = "backprop"
  /\ \E b \in MeanBackpropagated :
       /\ \E u \in {update_statistic(reward_statistic_, cost_statistic_,
                                     mean_step_costs_,
                                     <<collected, b.reward>>, <<collected, b.cost>>,
                                     b.child_reward, b.child_cost)} :
            /\ reward_statistic_' = u.reward
            /\ cost_statistic_' = u.cost
            /\ mean_step_costs_' = u.mean_step_costs
       /\ recorded' = RecordBackpropagated(b)
  /\ pc' = "select"
  /\ current_iteration' = current_iteration + 1
  /\ last_call' = [op |-> "update_statistic"]
  /\ best_calls' = <<>>
  /\ UNCHANGED <<significand, runner, agent_policy, uct_statistic_, planning,
                 parameters, unexpanded_actions_, random_generator_, is_root,
                 collected, returned, heuristic_updates>>

NextMean ==
  \/ UpdateFromHeuristic
  \/ ChooseNextAction
  \/ MeanUpdateStatistic

SpecMean == InitMean /\ [][NextMean]_vars

(***************************************************************************)
(* Action values and mean step costs as means of what was backpropagated   *)
(***************************************************************************)
\* the statistics of the node and their records
StatisticNames == {"reward", "cost"}
StatisticOf(name) == IF name = "reward" THEN reward_statistic_ ELSE cost_statistic_

\* value is the arithmetic mean of n numbers whose sum is total, 0 for none
IsMeanOf(value, n, total) ==
  IF n = 0 THEN value = RZero ELSE QMul(value, FromInt(n)) = total

\* units of roundoff of the floating-point type a mean of n numbers may be
\* off by, relative to the largest magnitude among them
MeanRoundoffUnits(n) == 8 * n

\* value is within MeanRoundoffUnits(n) units of roundoff, of the magnitude
\* largest, of the arithmetic mean of n numbers whose sum is total
IsNearMeanOf(value, n, total, largest) ==
  IF n = 0 THEN value = RZero
  ELSE RLe(RAbs(QSub(QMul(value, FromInt(n)), total)),
           QMul(Rat(n * MeanRoundoffUnits(n), 2^significand), largest))

\* the UcbPair of action a, if it has one, counts the returns recorded for a
CountsRecorded(stat, rec, a) ==
  IF a \in DOMAIN stat.ucb_statistics_
  THEN stat.ucb_statistics_[a].action_count_ = rec[a].n
  ELSE rec[a].n = 0

ValueIsMean(stat, rec, a) ==
  a \in DOMAIN stat.ucb_statistics_ =>
    IsMeanOf(stat.ucb_statistics_[a].action_value_, rec[a].n, rec[a].returns)

ValueIsNearMean(stat, rec, a) ==
  a \in DOMAIN stat.ucb_statistics_ =>
    IsNearMeanOf(stat.ucb_statistics_[a].action_value_, rec[a].n,
                 rec[a].returns, rec[a].largest)

\* C21 as stated: for every action of the reward and of the cost statistic,
\* after any sequence of backpropagations, the value is 0 if the count is 0
\* and otherwise equals the arithmetic mean of the count returns recorded for
\* the action, each immediate + discount * child return with the discount
\* DISCOUNT_FACTOR for the reward and 1.0 for the cost.
C21_ValueIsMeanOfReturns ==
  \A s \in StatisticNames : \A a \in ActionIdx :
    /\ CountsRecorded(StatisticOf(s), recorded[s], a)
    /\ ValueIsMean(StatisticOf(s), recorded[s], a)

\* C21 as amended: the count is the number of returns recorded; the value is
\* 0 if the count is 0, equals the arithmetic mean of the recorded returns in
\* arithmetic without rounding error, and in floating-point arithmetic is
\* within 8 * count units of roundoff, of the largest magnitude of a recorded
\* return, of that mean.
C21_ValueNearMeanOfReturns ==
  \A s \in StatisticNames : \A a \in ActionIdx :
    /\ CountsRecorded(StatisticOf(s), recorded[s], a)
    /\ IF significand = 0
       THEN ValueIsMean(StatisticOf(s), recorded[s], a)
       ELSE ValueIsNearMean(StatisticOf(s), recorded[s], a)

\* an action whose value, computed in floating-point arithmetic from two or
\* more returns, is not their arithmetic mean; another whose discounted
\* reward return and undiscounted cost return were recorded
C21_Witness ==
  /\ significand = SignificandBits
  /\ \E s \in StatisticNames : \E a \in ActionIdx :
       /\ recorded[s][a].n >= 2
       /\ ~ ValueIsMean(StatisticOf(s), recorded[s], a)
  /\ \E a \in ActionIdx :
       /\ recorded.reward[a].n >= 1
       /\ recorded.reward[a].returns # recorded.cost[a].returns
       /\ recorded.cost[a].returns = FromInt(recorded.cost[a].n)

\* C22 as stated: after any sequence of update_statistic calls,
\* mean_step_costs_[a] equals the arithmetic mean of the immediate,
\* undiscounted ego costs collected on the traversals of a, 0 if a was never
\* traversed.
C22_MeanStepCostIsMeanOfCosts ==
  \A a \in ActionIdx :
    IsMeanOf(mean_step_costs_[a], recorded.cost[a].n, recorded.cost[a].immediate)

\* C22 as amended: mean_step_costs_[a] is 0 if a was never traversed, equals
\* the arithmetic mean of the immediate ego costs collected on the traversals
\* of a in arithmetic without rounding error, and in floating-point
\* arithmetic is within 8 * count units of roundoff, of the largest magnitude
\* of such a cost, of that mean.
C22_MeanStepCostNearMeanOfCosts ==
  \A a \in ActionIdx :
    IF significand = 0
    THEN IsMeanOf(mean_step_costs_[a], recorded.cost[a].n,
                  recorded.cost[a].immediate)
    ELSE IsNearMeanOf(mean_step_costs_[a], recorded.cost[a].n,
                      recorded.cost[a].immediate,
                      recorded.cost[a].largest_immediate)

\* an action traversed twice with different immediate costs whose mean step
\* cost, computed in floating-point arithmetic, is not their arithmetic mean,
\* while another action was traversed once
C22_Witness ==
  /\ significand = SignificandBits
  /\ \E a \in ActionIdx :
       /\ recorded.cost[a].n >= 2
       /\ ~ IsMeanOf(mean_step_costs_[a], recorded.cost[a].n,
                     recorded.cost[a].immediate)
  /\ \E a \in ActionIdx : recorded.cost[a].n = 1

(***************************************************************************)
(* unsigned int: arithmetic modulo 2^UnsignedBits. The type has 32 bits;   *)
(* the model keeps its wrap-around with a narrower width, so that the      *)
(* largest value and the wrap are within reach of the search.              *)
(***************************************************************************)
UnsignedBits == 3
UnsignedModulus == 2^UnsignedBits
Unsigned == 0 .. (UnsignedModulus - 1)

\* x + y and x - y of two unsigned int
UnsignedAdd(x, y) == (x + y) % UnsignedModulus
UnsignedSub(x, y) == (x - y + UnsignedModulus) % UnsignedModulus

(***************************************************************************)
(* SpecRun: CrossingStateEpisodeRunner::run. Of the crossing state the     *)
(* runner only reads is_terminal(); whether the state a step executes into *)
(* is terminal is the environment's choice.                                *)
(***************************************************************************)
\* calls of run on one runner, and calls of step() the model follows within
\* one call of run
MaxRuns == 2
MaxStepCalls == UnsignedModulus + 2

\* step(): the states it can leave in current_state_ (by their
\* is_terminal()), the Terminal entry of its result, and whether it planned,
\* executed and updated the belief
step(terminal) ==
  IF terminal
  THEN { [terminal |-> TRUE, Terminal |-> FALSE, executed |-> FALSE] }
  ELSE { [terminal |-> t, Terminal |-> t, executed |-> TRUE] : t \in BOOLEAN }

\* the runner after its constructor: the initial state is not terminal
InitRun ==
  /\ significand = 0
  /\ recorded = NoRecord
  /\ runner \in { [max_steps_ |-> m, terminal |-> FALSE, current_step |-> 0,
                   step_calls |-> 0, runs |-> 0] : m \in Unsigned }
  /\ agent_policy = NoAgentPolicy
  /\ uct_statistic_ = NoStatistic
  /\ planning = NoPlanning
  /\ parameters = MeanParameters
  /\ reward_statistic_ = NoStatistic
  /\ cost_statistic_ = NoStatistic
  /\ unexpanded_actions_ = <<>>
  /\ mean_step_costs_ = <<>>
  /\ random_generator_ = 0
  /\ is_root = TRUE
  /\ pc = "runner"
  /\ current_iteration = 0
  /\ collected = 0
  /\ returned = {}
  /\ heuristic_updates = 0
  /\ last_call = NoCall
  /\ best_calls = <<>>

\* a call of run, on a new runner or after an earlier call returned: lines
\* 107-108
Run ==
  /\ pc \in {"runner", "run_returned"}
  /\ runner.runs < MaxRuns
  /\ runner' = [runner EXCEPT !.current_step = 0, !.step_calls = 0,
                              !.runs = @ + 1]
  /\ pc' = "run"
  /\ last_call' = [op |-> "run"]
  /\ UNCHANGED <<significand, recorded, agent_policy, uct_statistic_, planning,
                 parameters, reward_statistic_, cost_statistic_,
                 unexpanded_actions_, mean_step_costs_, random_generator_,
                 is_root, current_iteration, collected, returned,
                 heuristic_updates, best_calls>>

\* run returns step_result with MaxSteps and NumSteps appended
RunResult(s, max_steps_reached, current_step) ==
  [op |-> "step", Terminal |-> s.Terminal, executed |-> s.executed,
   returns |-> TRUE, MaxSteps |-> max_steps_reached, NumSteps |-> current_step]

\* one pass of the loop of run: step(), then return or count the step
RunLoop ==
  /\ pc = "run"
  /\ runner.step_calls < MaxStepCalls
  /\ \E s \in step(runner.terminal) :
       IF s.Terminal \/ runner.current_step > runner.max_steps_
       THEN /\ runner' = [runner EXCEPT !.terminal = s.terminal,
                                        !.step_calls = @ + 1]
            /\ last_call' = RunResult(s, runner.current_step > runner.max_steps_,
                                      runner.current_step)
            /\ pc' = "run_returned"
       ELSE /\ runner' = [runner EXCEPT !.terminal = s.terminal,
                                        !.step_calls = @ + 1,
                                        !.current_step = UnsignedAdd(@, 1)]
            /\ last_call' = [op |-> "step", Terminal |-> s.Terminal,
                             executed |-> s.executed, returns |-> FALSE]
            /\ pc' = "run"
  /\ UNCHANGED <<significand, recorded, agent_policy, uct_statistic_, planning,
                 parameters, reward_statistic_, cost_statistic_,
                 unexpanded_actions_, mean_step_costs_, random_generator_,
                 is_root, current_iteration, collected, returned,
                 heuristic_updates, best_calls>>

NextRun ==
  \/ Run
  \/ RunLoop

SpecRun == InitRun /\ [][NextRun]_vars

\* the last pass of the loop returned from run
RunReturned == pc = "run_returned"

\* C23: run always returns after at most max_steps + 2 calls of step(): it
\* returns at the first step whose result reports Terminal = true or once
\* current_step > max_steps, also when the state is already terminal at the
\* start of a step (step() returns a default result and neither plans nor
\* executes); the NumSteps it reports never exceeds max_steps + 1.
C23_RunReturnsWithinMaxSteps ==
  /\ runner.step_calls <= runner.max_steps_ + 2
  /\ (pc = "run" /\ runner.step_calls > 0) =>
       /\ ~ last_call.Terminal
       /\ runner.current_step <= runner.max_steps_ + 1
  /\ RunReturned =>
       /\ last_call.Terminal \/ last_call.MaxSteps
       /\ last_call.MaxSteps = (last_call.NumSteps > runner.max_steps_)
       /\ last_call.NumSteps <= runner.max_steps_ + 1
  /\ (pc \in {"run", "run_returned"} /\ runner.step_calls > 0
        /\ ~ last_call.executed) =>
       (runner.terminal /\ ~ last_call.Terminal)

\* the claim for the runners whose max_steps is not the largest unsigned int
C23_BelowLargestMaxSteps ==
  runner.max_steps_ < UnsignedModulus - 1 => C23_RunReturnsWithinMaxSteps

(***************************************************************************)
(* SpecPolicy: AgentPolicyCrossingState, the policy of the other agent of  *)
(* the hypothesis crossing state, called with every ego distance, desired  *)
(* gap and range of desired gaps of the unsigned type.                     *)
(***************************************************************************)
\* enum Actions
WAIT == 0
FORWARD == 1
BACKWARD == -1
Actions == {WAIT, FORWARD, BACKWARD}

\* AgentPolicyCrossingState::calculate_action: both differences are unsigned
calculate_action(ego_distance, desired_gap_dst) ==
  IF UnsignedSub(ego_distance, desired_gap_dst) > 0 THEN FORWARD
  ELSE IF UnsignedSub(ego_distance, desired_gap_dst) = 0 THEN WAIT
  ELSE BACKWARD

\* gap_distances of get_probability: second - first + 1 gaps from first on
GapDistances(desired_gap_range_) ==
  [ i \in 1 .. UnsignedAdd(UnsignedSub(desired_gap_range_[2],
                                       desired_gap_range_[1]), 1) |->
      UnsignedAdd(desired_gap_range_[1], i - 1) ]

\* action_selected of get_probability
ActionSelected(gap_distances, ego_distance, action) ==
  Cardinality({ i \in DOMAIN gap_distances :
                  calculate_action(ego_distance, gap_distances[i]) = action })

\* AgentPolicyCrossingState::get_probability for a range that is not empty
get_probability(desired_gap_range_, ego_distance, action) ==
  Rat(ActionSelected(GapDistances(desired_gap_range_), ego_distance, action),
      Len(GapDistances(desired_gap_range_)))

\* the ranges of desired gaps a policy is constructed with
DesiredGapRanges ==
  { r \in Unsigned \X Unsigned :
      r[1] <= r[2] /\ r[2] - r[1] < UnsignedModulus - 1 }

\* a policy and the arguments of a call of one of its members
InitPolicy ==
  /\ significand = 0
  /\ recorded = NoRecord
  /\ runner = NoRunner
  /\ agent_policy \in { [desired_gap_range_ |-> r, ego_distance |-> e,
                         desired_gap_dst |-> g] :
                        r \in DesiredGapRanges, e \in Unsigned, g \in Unsigned }
  /\ uct_statistic_ = NoStatistic
  /\ planning = NoPlanning
  /\ parameters = MeanParameters
  /\ reward_statistic_ = NoStatistic
  /\ cost_statistic_ = NoStatistic
  /\ unexpanded_actions_ = <<>>
  /\ mean_step_costs_ = <<>>
  /\ random_generator_ = 0
  /\ is_root = TRUE
  /\ pc = "policy"
  /\ current_iteration = 0
  /\ collected = 0
  /\ returned = {}
  /\ heuristic_updates = 0
  /\ last_call = NoCall
  /\ best_calls = <<>>

\* calculate_action(ego_distance, desired_gap_dst)
CalculateAction ==
  /\ pc = "policy"
  /\ last_call' = [op |-> "calculate_action",
                   action |-> calculate_action(agent_policy.ego_distance,
                                               agent_policy.desired_gap_dst)]
  /\ pc' = "calculated"
  /\ UNCHANGED <<significand, recorded, runner, agent_policy, uct_statistic_,
                 planning, parameters, reward_statistic_, cost_statistic_,
                 unexpanded_actions_, mean_step_costs_, random_generator_,
                 is_root, current_iteration, collected, returned,
                 heuristic_updates, best_calls>>

\* get_probability(ego_distance, action)
GetProbability ==
  /\ pc = "policy"
  /\ \E action \in Actions :
       last_call' = [op |-> "get_probability", action |-> action,
                     probability |->
                       get_probability(agent_policy.desired_gap_range_,
                                       agent_policy.ego_distance, action)]
  /\ pc' = "probability"
  /\ UNCHANGED <<significand, recorded, runner, agent_policy, uct_statistic_,
                 planning, parameters, reward_statistic_, cost_statistic_,
                 unexpanded_actions_, mean_step_costs_, random_generator_,
                 is_root, current_iteration, collected, returned,
                 heuristic_updates, best_calls>>

NextPolicy ==
  \/ CalculateAction
  \/ GetProbability

SpecPolicy == InitPolicy /\ [][NextPolicy]_vars

\* the action the comparison of the two distances selects
ComparedAction(ego_distance, desired_gap_dst) ==
  IF ego_distance > desired_gap_dst THEN FORWARD
  ELSE IF ego_distance = desired_gap_dst THEN WAIT
  ELSE BACKWARD

\* some gap of the desired range exceeds the ego distance
SomeGapExceeds(desired_gap_range_, ego_distance) ==
  \E g \in desired_gap_range_[1] .. desired_gap_range_[2] : g > ego_distance

\* C24: for all unsigned ego_distance and desired_gap_dst, calculate_action
\* returns FORWARD when ego_distance > desired_gap_dst, WAIT when they are
\* equal and BACKWARD when ego_distance < desired_gap_dst; consequently
\* get_probability(ego_distance, BACKWARD) is positive whenever some gap of
\* the desired range exceeds ego_distance.
C24_ActionComparesDistances ==
  /\ pc = "calculated" =>
       last_call.action = ComparedAction(agent_policy.ego_distance,
                                         agent_policy.desired_gap_dst)
  /\ (/\ pc = "probability"
      /\ last_call.action = BACKWARD
      /\ SomeGapExceeds(agent_policy.desired_gap_range_,
                        agent_policy.ego_distance)) =>
       RLt(RZero, last_call.probability)

\* what calculate_action and get_probability do instead: FORWARD whenever
\* the distances differ, WAIT when they are equal, and probability 0 for
\* BACKWARD
C24_NeverBackward ==
  /\ pc = "calculated" =>
       last_call.action =
         (IF agent_policy.ego_distance = agent_policy.desired_gap_dst
          THEN WAIT ELSE FORWARD)
  /\ (pc = "probability" /\ last_call.action = BACKWARD) =>
       last_call.probability = RZero
=============================================================================
